---------------------------- MODULE Spec2Model ----------------------------
(***************************************************************************)
(* Model of the raw-IP relay of raw_voice_proto_fixed.c                    *)
(* (src/unnamed/part_000, lines 215-751): the private frame header, the    *)
(* IP envelope (build_ip_packet / parse_ip_packet / ip_checksum), the      *)
(* client registry (server_register_client), the fan-out                   *)
(* (server_forward_payload) and the relay's receive loop in main.          *)
(*                                                                         *)
(* Memory is modelled as sequences of bytes (0..255).  The host is         *)
(* little-endian (the usual build target), so a native 16/32-bit load or   *)
(* store and htons/htonl/ntohl are distinct operations.  A u32 value is    *)
(* the tuple of its four base-256 digits, most significant first (TLC's    *)
(* integers stop below 2^31, MAGIC does not).                              *)
(*                                                                         *)
(* struct client_entry.last_seen_ms is written by server_register_client   *)
(* and read nowhere in the program; it is not part of the modelled state.  *)
(***************************************************************************)
EXTENDS Integers, Sequences, FiniteSets, TLC

(***************************************************************************)
(* Bounds.  MAX_CLIENTS, MAX_PACKET_SIZE and RXBUF_SIZE are the program's  *)
(* sizes (64, 1500 and 4096) scaled down; every property below is stated   *)
(* in terms of the names, never of the scaled values.                      *)
(***************************************************************************)
\* clients[MAX_CLIENTS] (64 in the source, line 256)
MAX_CLIENTS == 2
\* pktbuf[MAX_PACKET_SIZE] (1500 in the source, line 255)
MAX_PACKET_SIZE == 43
\* sizeof(rxbuf) of the server loop (4096 in the source, line 619)
RXBUF_SIZE == 45
\* client ids the environment uses: 1..NumIds
NumIds == 3

(***************************************************************************)
(* Program constants.                                                      *)
(***************************************************************************)
CUSTOM_PROTO == 255
\* 0xA1B2C3D4
MAGIC == << 161, 178, 195, 212 >>
PRIV_HDR_SIZE == 20
IPHDR_LEN == 20
IP_TTL == 64

Threads == {"main", "aux"}

\* client mode: client_send_thread and the receive loop of main
PeerThreads == {"send", "recv"}

\* client mode: what the two loops work on after pthread_create
PeerObjects ==
    { "seq", "payload", "pktbuf", "src_addr", "gaussian", "rand",
      "rxbuf", "r", "pkt_src", "ph", "rx_fields",
      "sarg", "g_client_id", "raw_send_sock", "recv_fd" }

\* sender_id, seq, secs, usec of main's client loop before the first frame
NoFrame == [ok |-> FALSE]

(***************************************************************************)
(* Byte order (little-endian host).                                        *)
(***************************************************************************)
\* A faulty conversion that leaves a short in host order.  HeaderFields tells
\* htons from it.
NoSwap16(x) == x % 65536

htons(x) == (x % 256) * 256 + ((x \div 256) % 256)

htonl(x) == << x[4], x[3], x[2], x[1] >>

\* A faulty conversion that leaves the bytes in network order.
\* FrameRoundTrip tells ntohl from it.
NoSwap(x) == x

ntohl(x) == htonl(x)

\* native load of an unsigned short / u32 at byte offset off of buf
LoadU16(buf, off) == buf[off + 1] + 256 * buf[off + 2]

LoadU32(buf, off) == << buf[off + 4], buf[off + 3], buf[off + 2], buf[off + 1] >>

\* native store of an unsigned short / u32
StoreU16(v) == << v % 256, (v \div 256) % 256 >>

StoreU32(v) == << v[4], v[3], v[2], v[1] >>

\* the u32 of a number below 2^31
U32Of(n) == << (n \div 16777216) % 256, (n \div 65536) % 256,
               (n \div 256) % 256, n % 256 >>

(***************************************************************************)
(* ip_checksum: sum of nwords native 16-bit words, carries folded,         *)
(* complemented, truncated to unsigned short.                              *)
(***************************************************************************)
SumWords(buf, nwords) ==
    LET s[i \in 0..nwords] ==
            IF i = 0 THEN 0 ELSE s[i - 1] + LoadU16(buf, 2 * (i - 1))
    IN  s[nwords]

\* A faulty fold that adds the carry back once only.  ChecksumIsReference
\* tells FoldCarry from it.
FoldOnce(sum) == (sum % 65536) + (sum \div 65536)

RECURSIVE FoldCarry(_)
FoldCarry(sum) ==
    IF sum \div 65536 # 0
    THEN FoldCarry((sum % 65536) + (sum \div 65536))
    ELSE sum

ip_checksum(buf, nwords) == 65535 - (FoldCarry(SumWords(buf, nwords)) % 65536)

(***************************************************************************)
(* build_ip_packet: the bytes written at buf (header then payload) and the *)
(* returned total length.  rnd is the value of rand().                     *)
(***************************************************************************)
BuildHeader(ip_src, ip_dst, total_len, rnd) ==
    LET ihl  == IPHDR_LEN \div 4
        hdr0 == << 4 * 16 + ihl, 0 >>
                \o StoreU16(htons(total_len % 65536))
                \o StoreU16(htons(rnd % 65536))
                \o << 0, 0 >>
                \o << IP_TTL, CUSTOM_PROTO >>
                \o << 0, 0 >>
                \o ip_src \o ip_dst
        chk  == StoreU16(ip_checksum(hdr0, ihl))
    IN  [hdr0 EXCEPT ![11] = chk[1], ![12] = chk[2]]

build_ip_packet(ip_src, ip_dst, payload, payload_len, rnd) ==
    LET total_len == IPHDR_LEN + payload_len
    IN  [buf |-> BuildHeader(ip_src, ip_dst, total_len, rnd)
                 \o SubSeq(payload, 1, payload_len),
         len |-> total_len]

(***************************************************************************)
(* parse_ip_packet.  ok = FALSE is the -1 return (outputs untouched).      *)
(* payload is the offset of *payload_ptr in buf; hi is the number of       *)
(* leading bytes of buf the function has read.                             *)
(***************************************************************************)
ParseFail(hi) == [ok |-> FALSE, src_addr |-> << >>, payload |-> 0,
                  payload_len |-> 0, hi |-> hi]

\* A faulty parser without the test of the declared header length.
\* ParseContract tells parse_ip_packet from it.
ParseNoIhlTest(buf, buflen) ==
    IF buflen < IPHDR_LEN THEN ParseFail(0)
    ELSE IF buf[1] \div 16 # 4 THEN ParseFail(1)
    ELSE IF buf[10] # CUSTOM_PROTO THEN ParseFail(10)
    ELSE [ok |-> TRUE, src_addr |-> SubSeq(buf, 13, 16),
          payload |-> (buf[1] % 16) * 4,
          payload_len |-> buflen - (buf[1] % 16) * 4, hi |-> 16]

parse_ip_packet(buf, buflen) ==
    IF buflen < IPHDR_LEN THEN ParseFail(0)
    ELSE IF buf[1] \div 16 # 4 THEN ParseFail(1)
    ELSE IF buf[10] # CUSTOM_PROTO THEN ParseFail(10)
    ELSE LET ihl == (buf[1] % 16) * 4
         IN  IF buflen < ihl THEN ParseFail(10)
             ELSE [ok |-> TRUE, src_addr |-> SubSeq(buf, 13, 16),
                   payload |-> ihl, payload_len |-> buflen - ihl,
                   hi |-> 16]

(***************************************************************************)
(* The private header as the peer writes it (client_send_thread): five     *)
(* u32 fields in network byte order, then the audio bytes.                 *)
(***************************************************************************)
EncodeFrame(client_id, seqno, ts_sec, ts_usec, audio) ==
    StoreU32(htonl(MAGIC)) \o StoreU32(htonl(client_id))
    \o StoreU32(htonl(seqno)) \o StoreU32(htonl(ts_sec))
    \o StoreU32(htonl(ts_usec)) \o audio

\* memcpy(dst, buf + off, n); a byte beyond the end of buf reads as 0
MemRead(buf, off, n) ==
    [k \in 1..n |-> IF off + k <= Len(buf) THEN buf[off + k] ELSE 0]

(***************************************************************************)
(* The checks of the server loop between recvfrom and the registration:    *)
(* parse_ip_packet, the length check, the copy of the header, the magic    *)
(* check, cid = ntohl(ph.client_id).  ok = FALSE is a `continue'.  hi is   *)
(* the number of leading bytes of rxbuf read, ph the bytes copied into the *)
(* local struct priv_hdr (<< >> when the copy was not reached).            *)
(***************************************************************************)
DecodeDrop(p, hi, ph) ==
    [ok |-> FALSE, parsed |-> p.ok, src_addr |-> p.src_addr, payload |-> p.payload,
     payload_len |-> p.payload_len, ph |-> ph, cid |-> U32Of(0), hi |-> hi]

\* Faulty checks: without the length check, and without the magic check.
\* DecodeRejects and DropsQuietly tell DecodeFrame from them.
DecodeFrameNoLength(buf, buflen) ==
    LET p == parse_ip_packet(buf, buflen)
    IN  IF ~p.ok THEN DecodeDrop(p, p.hi, << >>)
        ELSE LET ph == MemRead(buf, p.payload, PRIV_HDR_SIZE)
                 hi == IF p.payload + PRIV_HDR_SIZE > p.hi
                       THEN p.payload + PRIV_HDR_SIZE ELSE p.hi
             IN  IF ntohl(LoadU32(ph, 0)) # MAGIC THEN DecodeDrop(p, hi, ph)
                 ELSE [ok |-> TRUE, parsed |-> TRUE, src_addr |-> p.src_addr,
                       payload |-> p.payload, payload_len |-> p.payload_len,
                       ph |-> ph, cid |-> ntohl(LoadU32(ph, 4)), hi |-> hi]

DecodeFrameNoMagic(buf, buflen) ==
    LET p == parse_ip_packet(buf, buflen)
    IN  IF ~p.ok THEN DecodeDrop(p, p.hi, << >>)
        ELSE IF p.payload_len < PRIV_HDR_SIZE THEN DecodeDrop(p, p.hi, << >>)
        ELSE LET ph == MemRead(buf, p.payload, PRIV_HDR_SIZE)
                 hi == IF p.payload + PRIV_HDR_SIZE > p.hi
                       THEN p.payload + PRIV_HDR_SIZE ELSE p.hi
             IN  [ok |-> TRUE, parsed |-> TRUE, src_addr |-> p.src_addr,
                  payload |-> p.payload, payload_len |-> p.payload_len,
                  ph |-> ph, cid |-> ntohl(LoadU32(ph, 4)), hi |-> hi]

DecodeFrame(buf, buflen) ==
    LET p == parse_ip_packet(buf, buflen)
    IN  IF ~p.ok THEN DecodeDrop(p, p.hi, << >>)
        ELSE IF p.payload_len < PRIV_HDR_SIZE THEN DecodeDrop(p, p.hi, << >>)
        ELSE LET ph == MemRead(buf, p.payload, PRIV_HDR_SIZE)
                 hi == IF p.payload + PRIV_HDR_SIZE > p.hi
                       THEN p.payload + PRIV_HDR_SIZE ELSE p.hi
             IN  IF ntohl(LoadU32(ph, 0)) # MAGIC THEN DecodeDrop(p, hi, ph)
                 ELSE [ok |-> TRUE, parsed |-> TRUE, src_addr |-> p.src_addr,
                       payload |-> p.payload, payload_len |-> p.payload_len,
                       ph |-> ph, cid |-> ntohl(LoadU32(ph, 4)), hi |-> hi]

(***************************************************************************)
(* The client registry: static struct client_entry clients[MAX_CLIENTS].   *)
(***************************************************************************)
NoAddr == << 0, 0, 0, 0 >>

EmptyEntry == [used |-> FALSE, client_id |-> U32Of(0), addr |-> NoAddr]

Slots == 1..MAX_CLIENTS

\* A faulty first loop that matches no record.  NoDuplicateIds tells
\* FindClient from it.
FindClientNever(cl, client_id) == 0

\* first loop of server_register_client: the first used slot holding
\* client_id, 0 when the loop ends without a match
FindClient(cl, client_id) ==
    IF \E i \in Slots : cl[i].used /\ cl[i].client_id = client_id
    THEN CHOOSE i \in Slots :
            /\ cl[i].used /\ cl[i].client_id = client_id
            /\ \A j \in Slots :
                   (cl[j].used /\ cl[j].client_id = client_id) => i <= j
    ELSE 0

\* A faulty update that leaves the matching record as it is.
\* UpsertIdempotent tells UpdateEntry from it.
UpdateEntryKeep(cl, i, addr) == cl

\* the body of the first loop on a match
UpdateEntry(cl, i, addr) == [cl EXCEPT ![i].addr = addr]

\* A faulty second loop that falls back on slot 1 when no slot is free.
\* FullRegistry tells FirstFree from it.
FirstFreeOrFirst(cl) ==
    IF \E i \in 1..MAX_CLIENTS : ~cl[i].used
    THEN CHOOSE i \in 1..MAX_CLIENTS :
            ~cl[i].used /\ \A j \in 1..MAX_CLIENTS : ~cl[j].used => i <= j
    ELSE 1

\* second loop of server_register_client: the first unused slot, 0 when
\* every slot is used
FirstFree(cl) ==
    IF \E i \in Slots : ~cl[i].used
    THEN CHOOSE i \in Slots : ~cl[i].used /\ \A j \in Slots : ~cl[j].used => i <= j
    ELSE 0

\* A faulty insertion that clears every other slot.  RecordsKept tells
\* InsertEntry from it.
InsertEntryAlone(cl, i, client_id, addr) ==
    [s \in 1..MAX_CLIENTS |->
        IF s = i THEN [used |-> TRUE, client_id |-> client_id, addr |-> addr]
        ELSE [used |-> FALSE, client_id |-> U32Of(0), addr |-> << 0, 0, 0, 0 >>]]

\* the body of the second loop on a free slot
InsertEntry(cl, i, client_id, addr) ==
    [cl EXCEPT ![i] = [used |-> TRUE, client_id |-> client_id, addr |-> addr]]

\* server_register_client run without interruption
server_register_client(cl, client_id, addr) ==
    LET f == FindClient(cl, client_id)
        n == FirstFree(cl)
    IN  IF f # 0 THEN UpdateEntry(cl, f, addr)
        ELSE IF n # 0 THEN InsertEntry(cl, n, client_id, addr)
        ELSE cl

(***************************************************************************)
(* The environment: the datagrams recvfrom may deliver to the relay.       *)
(***************************************************************************)
Addr(k) == << 10, 0, 0, k >>

\* client n sends from its own address 10.0.0.n or, once it has moved, from
\* 10.0.0.(n+1), the address of client n+1
Moves == 0..1

ClientAddrs == { Addr(n + k) : n \in 1..NumIds, k \in Moves }

ClientIds == { U32Of(n) : n \in 1..NumIds }

\* inet_pton(g_server_ip_str) when the string is an IPv4 address; a peer may
\* run on the relay's own host, so this is also one of the source addresses
ServerAddr == Addr(1)

\* rand() & 0xFFFF
RandIds == { 0, 4660 }

\* the largest audio block whose frame fits pktbuf behind an IP header
FitAudio == [k \in 1..(MAX_PACKET_SIZE - IPHDR_LEN - PRIV_HDR_SIZE) |-> 96 + k]

\* the largest audio block whose datagram fits rxbuf
BigAudio == [k \in 1..(RXBUF_SIZE - IPHDR_LEN - PRIV_HDR_SIZE) |-> 64 + k]

\* sequence number and timestamp carried by the environment's frames
EnvSeq == << 0, 0, 1, 2 >>
EnvSec == << 101, 2, 3, 4 >>
EnvUsec == U32Of(1000000 - 1)

PeerDatagram(client_id, src, seqno, audio) ==
    build_ip_packet(src, ServerAddr,
                    EncodeFrame(client_id, seqno, EnvSec, EnvUsec, audio),
                    PRIV_HDR_SIZE + Len(audio), 4660).buf

\* well-formed datagrams: every id from each of its two addresses
GoodDatagrams ==
    { PeerDatagram(U32Of(n), Addr(n + k), EnvSeq, FitAudio) :
          n \in 1..NumIds, k \in Moves }
    \cup { PeerDatagram(U32Of(1), Addr(1), U32Of(0), << >>) }

\* well-formed frames too long for pktbuf once an IP header is put in front
BigDatagrams ==
    { PeerDatagram(U32Of(1), Addr(2), EnvSeq, BigAudio),
      PeerDatagram(U32Of(NumIds), Addr(NumIds), EnvSeq, BigAudio) }

\* a datagram with one 4-byte IP option (IHL 6) in front of a frame
OptionDatagram ==
    LET d == PeerDatagram(U32Of(2), Addr(2), EnvSeq, << >>)
    IN  << 4 * 16 + 6 >> \o SubSeq(d, 2, IPHDR_LEN) \o << 1, 1, 1, 0 >>
        \o SubSeq(d, IPHDR_LEN + 1, Len(d))

BadDatagrams ==
    LET d == PeerDatagram(U32Of(1), Addr(2), EnvSeq, FitAudio)
    IN  { [d EXCEPT ![1] = 6 * 16 + 5],                \* version 6
          [d EXCEPT ![10] = 17],                       \* protocol UDP
          [d EXCEPT ![1] = 4 * 16 + 15],               \* IHL beyond the datagram
          SubSeq(d, 1, IPHDR_LEN - 1),                 \* shorter than an IP header
          SubSeq(d, 1, IPHDR_LEN),                     \* no frame at all
          SubSeq(d, 1, IPHDR_LEN + 3),                 \* 3-byte frame
          SubSeq(d, 1, IPHDR_LEN + PRIV_HDR_SIZE - 1), \* 19-byte frame
          [d EXCEPT ![IPHDR_LEN + 1] = 160],           \* magic altered (first byte)
          [d EXCEPT ![IPHDR_LEN + 4] = 213] }          \* magic altered (last byte)

\* every datagram of the environment that recvfrom can return whole
Datagrams ==
    { d \in GoodDatagrams \cup BigDatagrams \cup {OptionDatagram}
             \cup BadDatagrams : Len(d) <= RXBUF_SIZE }

\* recvfrom return values that are not a datagram
RecvErrors == { -1, 0 }

(***************************************************************************)
(* State.                                                                  *)
(***************************************************************************)
VARIABLES
    pc,               \* where each execution context is
    g_server_ip_ok,   \* whether g_server_ip_str (argv[3]) is an IPv4 address
    clients,          \* the registry
    clients_lock,     \* owner of the mutex, "none" when free
    reg,              \* arguments of each context's server_register_client call
    r,                \* return value of the last recvfrom
    rxbuf,            \* the bytes recvfrom wrote (r of them)
    pkt_src,          \* main's locals set by parse_ip_packet
    payload,          \*   offset of the frame in rxbuf
    payload_len,
    ph,               \* main's struct priv_hdr
    cid,
    i,                \* loop index of server_forward_payload
    pktbuf,           \* the bytes build_ip_packet wrote last
    sent,             \* sendto calls made for the current datagram
    hi,               \* leading bytes of rxbuf read for the current datagram
    smashed,          \* build_ip_packet wrote past pktbuf for the current datagram
    last,             \* how the current loop iteration ended
    before,           \* the registry when main's upsert took the lock
    serial,           \* the registry as the upserts in lock order would leave it
    fn,               \* the library function applied last, with its result
    ppc,              \* client mode: where the send thread and main's loop are
    seq,              \* client_send_thread's seq
    txlog,            \* client_send_thread's sendto calls, oldest first
    peer_r,           \* client mode: return value of main's last recvfrom
    peer_rxbuf,       \* client mode: the bytes that recvfrom wrote
    rxd,              \* client mode: sender_id, seq, ts_ms, delay of main's loop
    touched           \* client mode: the loops that used each object so far

vars == << pc, g_server_ip_ok, clients, clients_lock, reg, r, rxbuf, pkt_src,
           payload, payload_len, ph, cid, i, pktbuf, sent, hi, smashed, last,
           before, serial, fn, ppc, seq, txlog, peer_r, peer_rxbuf, rxd,
           touched >>

rxvars == << r, rxbuf, pkt_src, payload, payload_len, ph, cid, hi >>

fwdvars == << i, pktbuf, sent, smashed >>

relayvars == << pc, g_server_ip_ok, clients, clients_lock, reg, rxvars,
                fwdvars, last, before, serial >>

peervars == << ppc, seq, txlog, peer_r, peer_rxbuf, rxd, touched >>

\* the statics and the locals of main's server branch when main is entered
RelayLocals ==
    /\ clients = [s \in Slots |-> EmptyEntry]
    /\ clients_lock = "none"
    /\ reg = [t \in Threads |-> [client_id |-> U32Of(0), addr |-> NoAddr]]
    /\ r = 0
    /\ rxbuf = << >>
    /\ pkt_src = NoAddr
    /\ payload = 0
    /\ payload_len = 0
    /\ ph = << >>
    /\ cid = U32Of(0)
    /\ i = 0
    /\ pktbuf = << >>
    /\ sent = << >>
    /\ hi = 0
    /\ smashed = FALSE
    /\ last = "none"
    /\ before = << >>
    /\ serial = clients

\* no library function has been applied
NoCall == [name |-> "none"]

\* the client branch of main has not been taken
PeerOff ==
    /\ ppc = [t \in PeerThreads |-> "off"]
    /\ seq = U32Of(0)
    /\ txlog = << >>
    /\ peer_r = 0
    /\ peer_rxbuf = << >>
    /\ rxd = NoFrame
    /\ touched = [o \in PeerObjects |-> { }]

\* main entered with argv[1] = "server"
Init ==
    /\ pc = [t \in Threads |-> IF t = "main" THEN "start" ELSE "idle"]
    /\ g_server_ip_ok \in BOOLEAN
    /\ RelayLocals
    /\ PeerOff
    /\ fn = NoCall

(***************************************************************************)
(* The mutex clients_lock.                                                 *)
(***************************************************************************)
\* A lock that is granted while another context holds it.  Serializable
\* tells MutexAcquire from it.
MutexAcquireNoWait(t) == clients_lock' = t

\* pthread_mutex_lock(&clients_lock) returns to context t
MutexAcquire(t) == clients_lock = "none" /\ clients_lock' = t

\* A faulty return path that leaves out the unlock.  LockReleasedOnReturn
\* tells MutexRelease from it.
MutexKeep == clients_lock' = clients_lock

\* pthread_mutex_unlock(&clients_lock)
MutexRelease == clients_lock' = "none"

\* A faulty loop that takes the next datagram as soon as the sender is
\* registered.  OneFrameAtATime tells RegReturn from it.
RegReturnSkip(t) == IF t = "main" THEN "loop_end" ELSE "idle"

\* where server_register_client returns to
RegReturn(t) == IF t = "main" THEN "fwd_enter" ELSE "idle"

(***************************************************************************)
(* main, server mode: start-up.                                            *)
(***************************************************************************)
Startup ==
    /\ pc["main"] = "start"
    /\ \E opened \in BOOLEAN :
          pc' = [pc EXCEPT !["main"] = IF opened THEN "recv" ELSE "exited"]
    /\ UNCHANGED << fn, peervars, g_server_ip_ok, clients, clients_lock, reg, rxvars,
                    fwdvars, last, serial, before >>

(***************************************************************************)
(* main, server loop: the jump back to the top of for (;;), taken by every *)
(* `continue' and at the end of the body.  There every local of the loop   *)
(* and of the two functions it calls is dead (each is written again before *)
(* it is read), and sent, hi, smashed and last describe one iteration: all *)
(* start the next iteration with their initial values, so that states that *)
(* differ only in dead values are one state.                               *)
(***************************************************************************)
LoopBack ==
    /\ pc["main"] = "loop_end"
    /\ pc' = [pc EXCEPT !["main"] = "recv"]
    /\ r' = 0
    /\ rxbuf' = << >>
    /\ pkt_src' = NoAddr
    /\ payload' = 0
    /\ payload_len' = 0
    /\ ph' = << >>
    /\ cid' = U32Of(0)
    /\ reg' = [reg EXCEPT !["main"] = [client_id |-> U32Of(0), addr |-> NoAddr]]
    /\ i' = 0
    /\ pktbuf' = << >>
    /\ sent' = << >>
    /\ hi' = 0
    /\ smashed' = FALSE
    /\ last' = "none"
    /\ before' = << >>
    /\ UNCHANGED << fn, peervars, g_server_ip_ok, clients, clients_lock, serial >>

(***************************************************************************)
(* main, server loop: recvfrom.                                            *)
(***************************************************************************)
RecvFrom(D) ==
    /\ pc["main"] = "recv"
    /\ \E d \in D :
          /\ Len(d) <= RXBUF_SIZE
          /\ r' = Len(d)
          /\ rxbuf' = d
    /\ pc' = [pc EXCEPT !["main"] = "decode"]
    /\ UNCHANGED << fn, peervars, g_server_ip_ok, clients, clients_lock, reg, pkt_src,
                    payload, payload_len, ph, cid, fwdvars, hi, last, serial, before >>

Recv == RecvFrom(Datagrams)

\* r <= 0: log and continue
RecvError ==
    /\ pc["main"] = "recv"
    /\ \E e \in RecvErrors : r' = e
    /\ pc' = [pc EXCEPT !["main"] = "loop_end"]
    /\ last' = "recv_error"
    /\ UNCHANGED << fn, peervars, g_server_ip_ok, clients, clients_lock, reg, rxbuf, pkt_src,
                    payload, payload_len, ph, cid, fwdvars, hi, serial, before >>

(***************************************************************************)
(* main, server loop: the checks, then the call of server_register_client. *)
(***************************************************************************)
\* A faulty loop that forwards a frame without registering its sender.
\* UpsertBeforeFanOut tells AfterChecks from it.
AfterChecksForward == "fwd_enter"

\* what the server loop does with a datagram that passed the checks: the
\* call of server_register_client, then that of server_forward_payload
AfterChecks == "reg_lock"

Decode ==
    /\ pc["main"] = "decode"
    /\ LET d == DecodeFrame(rxbuf, r)
       IN  /\ hi' = d.hi
           /\ pkt_src' = IF d.parsed THEN d.src_addr ELSE pkt_src
           /\ payload' = IF d.parsed THEN d.payload ELSE payload
           /\ payload_len' = IF d.parsed THEN d.payload_len ELSE payload_len
           /\ ph' = IF d.ph # << >> THEN d.ph ELSE ph
           /\ cid' = IF d.ok THEN d.cid ELSE cid
           /\ reg' = IF d.ok
                     THEN [reg EXCEPT !["main"] =
                              [client_id |-> d.cid, addr |-> d.src_addr]]
                     ELSE reg
           /\ pc' = [pc EXCEPT !["main"] = IF d.ok THEN AfterChecks ELSE "loop_end"]
           /\ last' = IF d.ok THEN last ELSE "malformed"
    /\ UNCHANGED << fn, peervars, g_server_ip_ok, clients, clients_lock, r, rxbuf, fwdvars,
                    serial, before >>

(***************************************************************************)
(* server_register_client, in the steps another context can observe.       *)
(***************************************************************************)
RegLock(t) ==
    /\ pc[t] = "reg_lock"
    /\ MutexAcquire(t)
    /\ pc' = [pc EXCEPT ![t] = "reg_scan"]
    /\ serial' = server_register_client(serial, reg[t].client_id, reg[t].addr)
    /\ before' = IF t = "main" THEN clients ELSE before
    /\ UNCHANGED << fn, peervars, g_server_ip_ok, clients, reg, rxvars, fwdvars, last >>

\* first loop: update in place, unlock and return, or fall through
RegScan(t) ==
    /\ pc[t] = "reg_scan"
    /\ LET f == FindClient(clients, reg[t].client_id)
       IN  IF f # 0
           THEN /\ clients' = UpdateEntry(clients, f, reg[t].addr)
                /\ MutexRelease
                /\ pc' = [pc EXCEPT ![t] = RegReturn(t)]
           ELSE /\ pc' = [pc EXCEPT ![t] = "reg_insert"]
                /\ UNCHANGED << clients, clients_lock >>
    /\ UNCHANGED << fn, peervars, g_server_ip_ok, reg, rxvars, fwdvars, last, serial, before >>

\* second loop: take the first free slot if there is one, unlock
RegInsert(t) ==
    /\ pc[t] = "reg_insert"
    /\ LET n == FirstFree(clients)
       IN  clients' = IF n # 0
                      THEN InsertEntry(clients, n, reg[t].client_id, reg[t].addr)
                      ELSE clients
    /\ MutexRelease
    /\ pc' = [pc EXCEPT ![t] = RegReturn(t)]
    /\ UNCHANGED << fn, peervars, g_server_ip_ok, reg, rxvars, fwdvars, last, serial, before >>

(***************************************************************************)
(* server_forward_payload(payload, payload_len, pkt_src).                  *)
(***************************************************************************)
\* A faulty entry that goes on to the loop whatever inet_pton returns.
\* NoServerIpNoSends tells AfterInetPton from it.
AfterInetPtonUnchecked(ok) == "fwd_lock"

\* where server_forward_payload goes on after inet_pton
AfterInetPton(ok) == IF ok THEN "fwd_lock" ELSE "loop_end"

\* inet_pton(AF_INET, g_server_ip_str, &server_src) != 1: log and return
FwdEnter ==
    /\ pc["main"] = "fwd_enter"
    /\ pc' = [pc EXCEPT !["main"] = AfterInetPton(g_server_ip_ok)]
    /\ last' = IF g_server_ip_ok THEN last ELSE "no_server_ip"
    /\ UNCHANGED << fn, peervars, g_server_ip_ok, clients, clients_lock, reg, rxvars,
                    fwdvars, serial, before >>

FwdLock ==
    /\ pc["main"] = "fwd_lock"
    /\ MutexAcquire("main")
    /\ i' = 0
    /\ pc' = [pc EXCEPT !["main"] = "fwd_loop"]
    /\ UNCHANGED << fn, peervars, g_server_ip_ok, clients, reg, rxvars, pktbuf, sent,
                    smashed, last, serial, before >>

\* Faulty exclusion tests: by client id instead of by address, and with the
\* address test left out.  ForwardByAddress and ForwardCount tell SkipEntry
\* from them.
SkipEntryById(e, src_addr) == ~e.used \/ e.client_id = cid

SkipEntryUnused(e, src_addr) == ~e.used

\* A faulty exclusion that serves registered senders only.
\* DroppedSenderForwarded tells SkipEntry from it.
SkipEntryUnlessKnown(e, src_addr) ==
    \/ ~e.used
    \/ e.addr = src_addr
    \/ \A s \in Slots : ~(clients[s].used /\ clients[s].client_id = cid)

\* A faulty exclusion without the test of the used flag.  SendsToRegistry
\* tells SkipEntry from it.
SkipEntryByAddr(e, src_addr) == e.addr = src_addr

\* A faulty exclusion that leaves out the sender's own record only.
\* SharedAddressExcluded tells SkipEntry from it.
SkipEntryOwn(e, src_addr) ==
    ~e.used \/ (e.addr = src_addr /\ e.client_id = cid)

\* the two `continue' tests of the loop
SkipEntry(e, src_addr) == ~e.used \/ e.addr = src_addr

\* an unused slot, or a slot holding the sender's address: continue
FwdSkip ==
    /\ pc["main"] = "fwd_loop"
    /\ i < MAX_CLIENTS
    /\ SkipEntry(clients[i + 1], pkt_src)
    /\ i' = i + 1
    /\ UNCHANGED << fn, peervars, pc, g_server_ip_ok, clients, clients_lock, reg, rxvars,
                    pktbuf, sent, smashed, last, serial, before >>

\* the bytes at payload, payload_len of them
Frame == MemRead(rxbuf, payload, payload_len)

\* what an overflowing build_ip_packet leaves in the packet handed to sendto
Clobbered(buf) == [k \in 1..Len(buf) |-> IF k <= IPHDR_LEN THEN buf[k] ELSE 0]

\* A faulty loop that does not move on after a send and sends to the same
\* record again.  OneCopyPerRecord tells AfterSend from it.
AfterSendStay(idx, delivered) == idx

\* A faulty loop that stops at the first failed send.  FailedSendGoesOn tells
\* AfterSend from it.
AfterSendBreak(idx, delivered) == IF delivered THEN idx + 1 ELSE MAX_CLIENTS

\* the loop index after send_raw_packet has returned: a negative return is
\* logged and the loop goes on with the next slot
AfterSend(idx, delivered) == idx + 1

\* build the packet for slot i and send it; a failed send is only logged.
\* A packet longer than pktbuf is a write past the array: the process dies,
\* or goes on with the packet as written or with its frame overwritten.
FwdSend ==
    /\ pc["main"] = "fwd_loop"
    /\ i < MAX_CLIENTS
    /\ ~SkipEntry(clients[i + 1], pkt_src)
    /\ \E rnd \in RandIds, delivered \in BOOLEAN,
          ub \in {"crash", "intact", "clobbered"} :
          LET pkt  == build_ip_packet(ServerAddr, clients[i + 1].addr,
                                      Frame, payload_len, rnd)
              fits == pkt.len <= MAX_PACKET_SIZE
              snd  == [dst |-> clients[i + 1].addr, len |-> pkt.len,
                       ok |-> delivered]
          IN  /\ ~fits \/ ub = "intact"
              /\ smashed' = (smashed \/ ~fits)
              /\ pktbuf' = IF ub = "clobbered" THEN Clobbered(pkt.buf) ELSE pkt.buf
              /\ IF ub = "crash"
                 THEN /\ pc' = [pc EXCEPT !["main"] = "crashed"]
                      /\ UNCHANGED << i, sent >>
                 ELSE /\ sent' = Append(sent, snd)
                      /\ i' = AfterSend(i, delivered)
                      /\ UNCHANGED pc
    /\ UNCHANGED << fn, peervars, g_server_ip_ok, clients, clients_lock, reg, rxvars, last,
                    serial, before >>

\* end of the loop: unlock and return to the server loop (a smashed stack
\* may be detected on return)
FwdUnlock ==
    /\ pc["main"] = "fwd_loop"
    /\ i = MAX_CLIENTS
    /\ MutexRelease
    /\ \E dies \in BOOLEAN :
          /\ dies => smashed
          /\ pc' = [pc EXCEPT !["main"] = IF dies THEN "crashed" ELSE "loop_end"]
          /\ last' = IF dies THEN last ELSE "forwarded"
    /\ UNCHANGED << fn, peervars, g_server_ip_ok, clients, reg, rxvars, fwdvars, serial, before >>

(***************************************************************************)
(* The relay as the program runs it: one context, the server loop of main. *)
(***************************************************************************)
Next ==
    \/ Startup
    \/ Recv
    \/ RecvError
    \/ Decode
    \/ RegLock("main")
    \/ RegScan("main")
    \/ RegInsert("main")
    \/ FwdEnter
    \/ FwdLock
    \/ FwdSkip
    \/ FwdSend
    \/ FwdUnlock
    \/ LoopBack

Spec == Init /\ [][Next]_vars

(***************************************************************************)
(* A second execution context that registers clients while the server loop *)
(* runs: the dedicated receive thread of the first version of the program  *)
(* (server_recv_thread), reduced to its server_register_client call.       *)
(***************************************************************************)
AuxIds == { 1, NumIds }

AuxCall ==
    /\ pc["aux"] = "idle"
    /\ \E n \in AuxIds, k \in Moves :
          reg' = [reg EXCEPT !["aux"] =
                     [client_id |-> U32Of(n), addr |-> Addr(n + k)]]
    /\ pc' = [pc EXCEPT !["aux"] = "reg_lock"]
    /\ UNCHANGED << fn, peervars, g_server_ip_ok, clients, clients_lock, rxvars, fwdvars,
                    last, serial, before >>

\* the datagrams delivered to the server loop while the second context runs
ConcDatagrams ==
    { PeerDatagram(U32Of(1), Addr(1), EnvSeq, FitAudio),
      PeerDatagram(U32Of(1), Addr(2), EnvSeq, FitAudio),
      PeerDatagram(U32Of(2), Addr(2), EnvSeq, FitAudio) }

RecvConc == RecvFrom(ConcDatagrams)

NextConc ==
    \/ Startup
    \/ RecvConc
    \/ RecvError
    \/ Decode
    \/ AuxCall
    \/ \E t \in Threads : RegLock(t)
    \/ \E t \in Threads : RegScan(t)
    \/ \E t \in Threads : RegInsert(t)
    \/ FwdEnter
    \/ FwdLock
    \/ FwdSkip
    \/ FwdSend
    \/ FwdUnlock
    \/ LoopBack

SpecConc == Init /\ [][NextConc]_vars

(***************************************************************************)
(* ip_checksum and the frame codec on their own: the arguments are drawn   *)
(* when the state is set up, one step applies the function.                *)
(***************************************************************************)
MaxWords == 3

WordValues == { 0, 1, 4660, 32768, 65535 }

\* the bytes of the native unsigned shorts ws, in memory order
BytesOfWords(ws) ==
    [k \in 1..(2 * Len(ws)) |-> StoreU16(ws[(k + 1) \div 2])[((k - 1) % 2) + 1]]

ChecksumCalls ==
    { [name |-> "ip_checksum", words |-> ws, buf |-> BytesOfWords(ws),
       nwords |-> n, done |-> FALSE, result |-> 0] :
          ws \in [1..MaxWords -> WordValues], n \in 0..MaxWords }

U32Samples == { << 0, 0, 0, 0 >>, << 1, 2, 3, 4 >>, << 255, 255, 255, 255 >> }

AudioSamples == { << >>, FitAudio }

CodecCalls ==
    { [name |-> "codec", client_id |-> c, seqno |-> q, ts_sec |-> ts,
       ts_usec |-> tu, audio |-> a, done |-> FALSE, result |-> NoFrame] :
          c \in U32Samples, q \in U32Samples, ts \in U32Samples,
          tu \in U32Samples, a \in AudioSamples }

\* main's client loop from parse_ip_packet to usec: the checks of the server
\* loop, then the four fields; audio is what payload and payload_len delimit
\* behind the private header
PeerDecode(buf, buflen) ==
    LET d == DecodeFrame(buf, buflen)
    IN  IF ~d.ok THEN NoFrame
        ELSE [ok |-> TRUE,
              sender_id |-> ntohl(LoadU32(d.ph, 4)),
              seq |-> ntohl(LoadU32(d.ph, 8)),
              secs |-> ntohl(LoadU32(d.ph, 12)),
              usec |-> ntohl(LoadU32(d.ph, 16)),
              audio |-> SubSeq(buf, d.payload + PRIV_HDR_SIZE + 1,
                               d.payload + d.payload_len)]

\* build_ip_packet: two sources, two destinations, frames of three lengths
BuildPayloads ==
    { << >>,
      EncodeFrame(U32Of(1), EnvSeq, EnvSec, EnvUsec, << >>),
      EncodeFrame(U32Of(2), EnvSeq, EnvSec, EnvUsec, FitAudio) }

BuildCalls ==
    { [name |-> "build_ip_packet", ip_src |-> a, ip_dst |-> b, payload |-> p,
       payload_len |-> Len(p), rnd |-> x, done |-> FALSE,
       buf |-> << >>, result |-> 0] :
          a \in { Addr(1), Addr(2) }, b \in { Addr(2), Addr(3) },
          p \in BuildPayloads, x \in RandIds }

\* the caller's src_addr, payload pointer and payload_len before the call
Unset == [src_addr |-> << 9, 9, 9, 9 >>, payload |-> -9, payload_len |-> -9]

\* parse_ip_packet: the environment's datagrams, and one whose IHL is 2
ParseBufs ==
    { d \in Datagrams \cup
             { [PeerDatagram(U32Of(1), Addr(2), EnvSeq, FitAudio)
                   EXCEPT ![1] = 4 * 16 + 2] } : Len(d) <= RXBUF_SIZE }

ParseCalls ==
    { [name |-> "parse_ip_packet", buf |-> d, buflen |-> Len(d),
       done |-> FALSE, result |-> 0, out |-> Unset] : d \in ParseBufs }

\* the registry key of the server loop of main: cid = ntohl(ph.client_id),
\* server_register_client((u32)cid, ...); NoAddr when the frame is dropped
MainLoopKey(buf, buflen) ==
    LET d == DecodeFrame(buf, buflen)
    IN  IF d.ok THEN ntohl(LoadU32(d.ph, 4)) ELSE NoAddr

\* the registry key of server_recv_thread (original variant): after the same
\* checks, ph.client_id = ntohl(ph.client_id), then
\* server_register_client(ntohl(ph.client_id), ...)
RecvThreadKey(buf, buflen) ==
    LET d == DecodeFrame(buf, buflen)
        client_id == ntohl(LoadU32(d.ph, 4))
    IN  IF d.ok THEN ntohl(client_id) ELSE NoAddr

\* the frames of clients 1, 2 and 258 handed to both receive paths
KeyCalls ==
    { [name |-> "register_key", buf |-> PeerDatagram(c, Addr(2), EnvSeq, a),
       done |-> FALSE, main_key |-> NoAddr, thread_key |-> NoAddr] :
          c \in { U32Of(1), U32Of(2), U32Of(258) }, a \in AudioSamples }

InitPure ==
    /\ pc = [t \in Threads |-> "idle"]
    /\ g_server_ip_ok = TRUE
    /\ RelayLocals
    /\ PeerOff
    /\ \/ fn \in ChecksumCalls
       \/ fn \in CodecCalls
       \/ fn \in BuildCalls
       \/ fn \in ParseCalls
       \/ fn \in KeyCalls

ApplyChecksum ==
    /\ fn.name = "ip_checksum"
    /\ ~fn.done
    /\ fn' = [fn EXCEPT !.done = TRUE,
                        !.result = ip_checksum(fn.buf, fn.nwords)]
    /\ UNCHANGED << relayvars, peervars >>

\* the frame as client_send_thread builds and sends it, then as main's
\* client loop takes it apart
ApplyCodec ==
    /\ fn.name = "codec"
    /\ ~fn.done
    /\ LET frame == EncodeFrame(fn.client_id, fn.seqno, fn.ts_sec, fn.ts_usec,
                                fn.audio)
           pkt   == build_ip_packet(Addr(2), ServerAddr, frame, Len(frame),
                                    4660)
       IN  fn' = [fn EXCEPT !.done = TRUE,
                           !.result = PeerDecode(pkt.buf, pkt.len)]
    /\ UNCHANGED << relayvars, peervars >>

\* build_ip_packet into a buffer that is large enough
ApplyBuild ==
    /\ fn.name = "build_ip_packet"
    /\ ~fn.done
    /\ LET pkt == build_ip_packet(fn.ip_src, fn.ip_dst, fn.payload,
                                  fn.payload_len, fn.rnd)
       IN  fn' = [fn EXCEPT !.done = TRUE, !.buf = pkt.buf, !.result = pkt.len]
    /\ UNCHANGED << relayvars, peervars >>

\* parse_ip_packet: -1 leaves the three outputs as they were
ApplyParse ==
    /\ fn.name = "parse_ip_packet"
    /\ ~fn.done
    /\ LET p == parse_ip_packet(fn.buf, fn.buflen)
       IN  fn' = [fn EXCEPT
                     !.done = TRUE,
                     !.result = IF p.ok THEN p.payload_len ELSE -1,
                     !.out = IF p.ok
                             THEN [src_addr |-> p.src_addr,
                                   payload |-> p.payload,
                                   payload_len |-> p.payload_len]
                             ELSE fn.out]
    /\ UNCHANGED << relayvars, peervars >>

\* one frame through the checks of both receive paths, up to the first
\* argument of server_register_client
ApplyKey ==
    /\ fn.name = "register_key"
    /\ ~fn.done
    /\ fn' = [fn EXCEPT !.done = TRUE,
                        !.main_key = MainLoopKey(fn.buf, Len(fn.buf)),
                        !.thread_key = RecvThreadKey(fn.buf, Len(fn.buf))]
    /\ UNCHANGED << relayvars, peervars >>

NextPure ==
    \/ ApplyChecksum
    \/ ApplyCodec
    \/ ApplyBuild
    \/ ApplyParse
    \/ ApplyKey

SpecPure == InitPure /\ [][NextPure]_vars

(***************************************************************************)
(* Client mode: main opens the sockets, starts client_send_thread and      *)
(* enters its receive loop.                                                *)
(***************************************************************************)
MaxFrames == 3

\* g_client_id
PeerId == U32Of(2)

\* src_addr of client_send_thread
PeerAddr == Addr(2)

\* A counter that stays at its largest value.  SeqCounts tells Inc32 from it.
IncSaturating(x) ==
    IF x[4] < 255 THEN << x[1], x[2], x[3], x[4] + 1 >>
    ELSE IF x[3] < 255 THEN << x[1], x[2], x[3] + 1, 0 >>
    ELSE IF x[2] < 255 THEN << x[1], x[2] + 1, 0, 0 >>
    ELSE IF x[1] < 255 THEN << x[1] + 1, 0, 0, 0 >>
    ELSE x

\* seq++ on an unsigned int
Inc32(x) ==
    IF x[4] < 255 THEN << x[1], x[2], x[3], x[4] + 1 >>
    ELSE IF x[3] < 255 THEN << x[1], x[2], x[3] + 1, 0 >>
    ELSE IF x[2] < 255 THEN << x[1], x[2] + 1, 0, 0 >>
    ELSE << (x[1] + 1) % 256, 0, 0, 0 >>

\* A faulty sampling that takes every frame.  ReportsSampledFrames tells
\* Mod50 from it.
ReportAll(x) == 0

\* seq % 50
Mod50(x) ==
    ((((((x[1] % 50) * 256 + x[2]) % 50) * 256 + x[3]) % 50) * 256 + x[4]) % 50

(***************************************************************************)
(* unsigned long (64 bits wide, as on the LP64 targets of the program):    *)
(* four 16-bit limbs, the most significant first.                          *)
(***************************************************************************)
\* the limbs of a sum of limb-wise terms below 2^31, modulo 2^64
Norm64(a) ==
    LET t4 == a[4]
        t3 == a[3] + (t4 \div 65536)
        t2 == a[2] + (t3 \div 65536)
        t1 == a[1] + (t2 \div 65536)
    IN  << t1 % 65536, t2 % 65536, t3 % 65536, t4 % 65536 >>

\* a + n for a number n below 2^31
Add64(a, n) == Norm64(<< a[1], a[2], a[3], a[4] + n >>)

\* a - b on unsigned long: modulo 2^64
Sub64(a, b) ==
    Norm64(<< a[1] + 65535 - b[1], a[2] + 65535 - b[2],
              a[3] + 65535 - b[3], a[4] + 65535 - b[4] + 1 >>)

\* usec / 1000 for a u32 given by its bytes
Div1000(x) ==
    LET r1 == x[1] % 1000
        c2 == r1 * 256 + x[2]
        c3 == (c2 % 1000) * 256 + x[3]
        c4 == (c3 % 1000) * 256 + x[4]
    IN  (((x[1] \div 1000) * 256 + (c2 \div 1000)) * 256 + (c3 \div 1000)) * 256
        + (c4 \div 1000)

\* ts_ms = (unsigned long)secs * 1000UL + (unsigned long)(usec / 1000)
TsMs(secs, usec) ==
    Norm64(<< 0, 0, (secs[1] * 256 + secs[2]) * 1000,
              (secs[3] * 256 + secs[4]) * 1000 + Div1000(usec) >>)

\* now_ms() when a frame stamped ts_ms is reported: the receiver's clock is
\* ahead of the sender's stamp, equal to it, or behind it
Clock(ts_ms) == { Add64(ts_ms, 5), ts_ms, Sub64(ts_ms, << 0, 0, 0, 3 >>) }

\* thread t reads the objects rd and writes the objects wr
Touch(tch, t, rd, wr) ==
    [o \in PeerObjects |->
        tch[o] \cup (IF o \in rd THEN { << t, "r" >> } ELSE { })
               \cup (IF o \in wr THEN { << t, "w" >> } ELSE { })]

Untouched == [o \in PeerObjects |-> { }]

\* what client_send_thread uses before its loop, and in one iteration
SendInitReads == { "sarg" }
SendInitWrites == { "seq", "src_addr" }
SendFrameReads ==
    { "g_client_id", "seq", "gaussian", "rand", "payload", "src_addr",
      "sarg", "pktbuf", "raw_send_sock" }
SendFrameWrites == { "seq", "gaussian", "rand", "payload", "pktbuf" }

\* what main's client loop uses in recvfrom, and from there to its end
RecvReads == { "recv_fd" }
RecvWrites == { "rxbuf", "r" }
DecodeReads == { "r", "rxbuf", "pkt_src", "ph", "rx_fields" }
\* A receive loop that keeps the sequence number of the frame in the send
\* thread's counter.  LoopsShareNothing tells DecodeWrites from it.
DecodeWritesShared == { "pkt_src", "ph", "rx_fields", "seq" }

DecodeWrites == { "pkt_src", "ph", "rx_fields" }

\* main entered with argv[1] = "client"
FreshPeer ==
    /\ ppc = [t \in PeerThreads |-> IF t = "recv" THEN "start" ELSE "off"]
    /\ seq = U32Of(0)
    /\ txlog = << >>
    /\ peer_r = 0
    /\ peer_rxbuf = << >>
    /\ rxd = NoFrame
    /\ touched = Untouched

\* the same program 2^32 - 1 frames later, asleep before the next one, no
\* datagram received so far
AgedPeer ==
    /\ ppc = [t \in PeerThreads |-> IF t = "recv" THEN "recv" ELSE "sleep"]
    /\ seq = << 255, 255, 255, 255 >>
    /\ txlog = << [seq |-> << 255, 255, 255, 254 >>, first |-> FALSE,
                   ok |-> TRUE, dst |-> ServerAddr] >>
    /\ peer_r = 0
    /\ peer_rxbuf = << >>
    /\ rxd = NoFrame
    /\ touched = Touch(Touch(Untouched, "send", SendInitReads, SendInitWrites),
                       "send", SendFrameReads, SendFrameWrites)

InitPeer ==
    /\ pc = [t \in Threads |-> "idle"]
    /\ g_server_ip_ok \in BOOLEAN
    /\ RelayLocals
    /\ fn = NoCall
    /\ \/ FreshPeer
       \/ g_server_ip_ok /\ AgedPeer

\* open_raw_socket_and_bind, inet_pton, pthread_create: each failure is a
\* return 1
ClientStartup ==
    /\ ppc["recv"] = "start"
    /\ \E opened \in BOOLEAN, created \in BOOLEAN :
          ppc' = IF opened /\ g_server_ip_ok /\ created
                 THEN [t \in PeerThreads |-> IF t = "recv" THEN "recv" ELSE "init"]
                 ELSE [t \in PeerThreads |-> IF t = "recv" THEN "exited" ELSE "off"]
    /\ UNCHANGED << relayvars, fn, seq, txlog, peer_r, peer_rxbuf, rxd, touched >>

\* client_send_thread up to its loop: seq = 0, the source address
ClientSendInit ==
    /\ ppc["send"] = "init"
    /\ seq' = U32Of(0)
    /\ ppc' = [ppc EXCEPT !["send"] = "sleep"]
    /\ touched' = Touch(touched, "send", SendInitReads, SendInitWrites)
    /\ UNCHANGED << relayvars, fn, txlog, peer_r, peer_rxbuf, rxd >>

\* nanosleep
ClientSleep ==
    /\ ppc["send"] = "sleep"
    /\ Len(txlog) < MaxFrames
    /\ ppc' = [ppc EXCEPT !["send"] = "build"]
    /\ UNCHANGED << relayvars, fn, seq, txlog, peer_r, peer_rxbuf, rxd, touched >>

\* A faulty loop that takes the number of a frame back when its send has
\* failed.  SeqSkipsFailedSends tells SeqAfterAttempt from it.
SeqKeptOnFailure(x, ok) == IF ok THEN Inc32(x) ELSE x

\* seq once the iteration is over: seq++ is done while the header is
\* written, before send_raw_packet and whatever it returns
SeqAfterAttempt(x, ok) == Inc32(x)

\* the header with seq++, the audio bytes, build_ip_packet, send_raw_packet;
\* the log holds the sequence number as the frame carries it on the wire
ClientSendFrame ==
    /\ ppc["send"] = "build"
    /\ LET frame == EncodeFrame(PeerId, seq, EnvSec, EnvUsec, FitAudio)
           pkt   == build_ip_packet(PeerAddr, ServerAddr, frame, Len(frame), 4660)
       IN  \E ok \in BOOLEAN :
              /\ txlog' = Append(txlog,
                             [seq |-> ntohl(LoadU32(pkt.buf, IPHDR_LEN + 8)),
                              first |-> (txlog = << >>), ok |-> ok,
                              dst |-> ServerAddr])
              /\ seq' = SeqAfterAttempt(seq, ok)
    /\ ppc' = [ppc EXCEPT !["send"] = "sent"]
    /\ touched' = Touch(touched, "send", SendFrameReads, SendFrameWrites)
    /\ UNCHANGED << relayvars, fn, peer_r, peer_rxbuf, rxd >>

\* A faulty end of the body: the thread returns after its first attempt.
ThreadReturns == "off"

\* the end of the body of for (;;) in client_send_thread: back to nanosleep
AfterAttempt == "sleep"

\* a failed send is logged; the loop goes on either way
ClientSendDone ==
    /\ ppc["send"] = "sent"
    /\ ppc' = [ppc EXCEPT !["send"] = AfterAttempt]
    /\ UNCHANGED << relayvars, fn, seq, txlog, peer_r, peer_rxbuf, rxd, touched >>

\* main's client loop: recvfrom
ClientRecv ==
    /\ ppc["recv"] = "recv"
    /\ \E d \in Datagrams :
          /\ peer_r' = Len(d)
          /\ peer_rxbuf' = d
    /\ ppc' = [ppc EXCEPT !["recv"] = "decode"]
    /\ touched' = Touch(touched, "recv", RecvReads, RecvWrites)
    /\ UNCHANGED << relayvars, fn, seq, txlog, rxd >>

ClientRecvError ==
    /\ ppc["recv"] = "recv"
    /\ \E e \in RecvErrors : peer_r' = e
    /\ ppc' = [ppc EXCEPT !["recv"] = "recv_failed"]
    /\ touched' = Touch(touched, "recv", RecvReads, { "r" })
    /\ UNCHANGED << relayvars, fn, seq, txlog, peer_rxbuf, rxd >>

\* parse_ip_packet, the length and magic checks, then the four fields; a
\* frame whose seq is a multiple of 50 is reported
ClientDecode ==
    /\ ppc["recv"] = "decode"
    /\ LET d == PeerDecode(peer_rxbuf, peer_r)
       IN  /\ rxd' = IF ~d.ok THEN NoFrame
                     ELSE [ok |-> TRUE, sender_id |-> d.sender_id,
                           seq |-> d.seq, ts_ms |-> TsMs(d.secs, d.usec)]
           /\ ppc' = [ppc EXCEPT !["recv"] =
                         IF ~d.ok THEN "dropped"
                         ELSE IF Mod50(d.seq) = 0 THEN "report" ELSE "played"]
    /\ touched' = Touch(touched, "recv", DecodeReads, DecodeWrites)
    /\ UNCHANGED << relayvars, fn, seq, txlog, peer_r, peer_rxbuf >>

\* A faulty loop that a failed recvfrom ends.  FailuresDoNotHalt tells
\* Continue from it.
BreakOnError(at) == IF at = "recv_failed" THEN "exited" ELSE "recv"

\* where main's client loop goes on after `continue' or the end of its body
Continue(at) == "recv"

\* delay = now_ms() - ts_ms and the log line
ClientReport ==
    /\ ppc["recv"] = "report"
    /\ \E now \in Clock(rxd.ts_ms) :
          rxd' = [ok |-> TRUE, sender_id |-> rxd.sender_id, seq |-> rxd.seq,
                  ts_ms |-> rxd.ts_ms, now |-> now,
                  delay |-> Sub64(now, rxd.ts_ms)]
    /\ ppc' = [ppc EXCEPT !["recv"] = "reported"]
    /\ touched' = Touch(touched, "recv", { "rx_fields" }, { })
    /\ UNCHANGED << relayvars, fn, seq, txlog, peer_r, peer_rxbuf >>

\* the jump back to recvfrom, by `continue' or at the end of the body; the
\* locals of the loop are dead there
ClientLoopBack ==
    /\ ppc["recv"] \in { "recv_failed", "dropped", "reported", "played" }
    /\ ppc' = [ppc EXCEPT !["recv"] = Continue(ppc["recv"])]
    /\ peer_r' = 0
    /\ peer_rxbuf' = << >>
    /\ rxd' = NoFrame
    /\ UNCHANGED << relayvars, fn, seq, txlog, touched >>

NextPeer ==
    \/ ClientStartup
    \/ ClientSendInit
    \/ ClientSleep
    \/ ClientSendFrame
    \/ ClientSendDone
    \/ ClientRecv
    \/ ClientRecvError
    \/ ClientDecode
    \/ ClientReport
    \/ ClientLoopBack

SpecPeer == InitPeer /\ [][NextPeer]_vars

(***************************************************************************)
(* The program in either mode, with the scheduling the loops rely on: the   *)
(* kernel runs every runnable thread, so the server loop takes the steps   *)
(* of its own (sendto and the lock of an uncontended mutex return) and     *)
(* each loop of the peer takes the jump back to its top.  Nothing is       *)
(* assumed about recvfrom or nanosleep: they may block for ever.           *)
(***************************************************************************)
InitLive ==
    \/ Init
    \/ InitPeer

\* the datagrams delivered to the server loop: frames of two clients, one of
\* them from two addresses, a frame too long for pktbuf, a datagram shorter
\* than an IP header and a frame with a wrong magic
LiveDatagrams ==
    { PeerDatagram(U32Of(1), Addr(1), EnvSeq, FitAudio),
      PeerDatagram(U32Of(1), Addr(2), EnvSeq, FitAudio),
      PeerDatagram(U32Of(2), Addr(2), EnvSeq, FitAudio),
      PeerDatagram(U32Of(1), Addr(2), EnvSeq, BigAudio),
      SubSeq(PeerDatagram(U32Of(1), Addr(1), EnvSeq, FitAudio), 1, IPHDR_LEN - 1),
      [PeerDatagram(U32Of(1), Addr(1), EnvSeq, FitAudio)
          EXCEPT ![IPHDR_LEN + 1] = 160] }

RecvLive == RecvFrom(LiveDatagrams)

NextLive ==
    \/ Startup
    \/ RecvLive
    \/ RecvError
    \/ Decode
    \/ RegLock("main")
    \/ RegScan("main")
    \/ RegInsert("main")
    \/ FwdEnter
    \/ FwdLock
    \/ FwdSkip
    \/ FwdSend
    \/ FwdUnlock
    \/ LoopBack
    \/ NextPeer

\* the steps of the server loop other than recvfrom
RelayStep ==
    \/ Decode
    \/ RegLock("main")
    \/ RegScan("main")
    \/ RegInsert("main")
    \/ FwdEnter
    \/ FwdLock
    \/ FwdSkip
    \/ FwdSend
    \/ FwdUnlock
    \/ LoopBack

SpecLive ==
    /\ InitLive
    /\ [][NextLive]_vars
    /\ WF_vars(RelayStep)
    /\ WF_vars(ClientSendDone)
    /\ WF_vars(ClientLoopBack)

(***************************************************************************)
(* The same with receive sockets on which recvfrom does not block for      *)
(* ever: on a closed socket every call returns at once with an error.      *)
(***************************************************************************)
SpecClosed ==
    /\ SpecLive
    /\ WF_vars(RecvError)
    /\ WF_vars(ClientRecvError)


(***************************************************************************)
(* Properties of the relay.                                                *)
(***************************************************************************)
UsedSlots(cl) == { s \in Slots : cl[s].used }

RecordsOf(cl, client_id) ==
    { s \in Slots : cl[s].used /\ cl[s].client_id = client_id }

Full(cl) == \A s \in Slots : cl[s].used

\* the addresses, in slot order, of the used records among the first n slots
\* of cl whose address differs from a
RECURSIVE Recipients(_, _, _)
Recipients(cl, n, a) ==
    IF n = 0 THEN << >>
    ELSE IF cl[n].used /\ cl[n].addr # a
         THEN Append(Recipients(cl, n - 1, a), cl[n].addr)
         ELSE Recipients(cl, n - 1, a)

\* destinations of the sends made for the current datagram, in order
Dsts == [k \in 1..Len(sent) |-> sent[k].dst]

\* the current datagram passed every check of the server loop
Accepted ==
    \/ pc["main"] \in { "reg_lock", "reg_scan", "reg_insert", "fwd_enter",
                        "fwd_lock", "fwd_loop", "crashed" }
    \/ pc["main"] = "loop_end" /\ last \in { "forwarded", "no_server_ip" }

\* the fan-out loop is running or has run for the current datagram
InFanOut ==
    \/ pc["main"] \in { "fwd_loop", "crashed" }
    \/ pc["main"] = "loop_end" /\ last = "forwarded"

\* the iteration for an accepted datagram is over
Handled == pc["main"] = "loop_end" /\ last \in { "forwarded", "no_server_ip" }

(***************************************************************************)
(* C1.  As claimed: once the relay has handled a valid frame from address  *)
(* S, a registered record's address has been sent the frame if and only if *)
(* it differs from S.  This fails when g_server_ip_str is not an IPv4      *)
(* address: server_forward_payload returns before its loop.                *)
(***************************************************************************)
ForwardIffAddressDiffers ==
    Handled =>
        \A s \in UsedSlots(clients) :
            (\E k \in 1..Len(sent) : sent[k].dst = clients[s].addr)
                <=> clients[s].addr # pkt_src

(***************************************************************************)
(* C1, amended.  When g_server_ip_str is an IPv4 address, the sends of the *)
(* fan-out loop go, in slot order, to exactly the used records among the   *)
(* slots visited so far whose address differs from S (whatever their       *)
(* client id), and a loop that returns has visited every slot.  When       *)
(* g_server_ip_str is not an IPv4 address, nothing is sent.  An accepted   *)
(* frame never ends its iteration as malformed.                            *)
(***************************************************************************)
ForwardByAddress ==
    /\ InFanOut => g_server_ip_ok /\ Dsts = Recipients(clients, i, pkt_src)
    /\ (pc["main"] = "loop_end" /\ last = "forwarded") => i = MAX_CLIENTS
    /\ (pc["main"] = "loop_end" /\ last = "no_server_ip")
           => ~g_server_ip_ok /\ sent = << >>
    /\ (pc["main"] = "loop_end" /\ r > 0 /\ DecodeFrame(rxbuf, r).ok)
           => IF g_server_ip_ok THEN last = "forwarded"
                                ELSE last = "no_server_ip"

\* a frame whose sender was not registered has been forwarded to a record
\* with another address and not to a record that shares the sender's address
ForwardByAddressSeen ==
    /\ pc["main"] = "loop_end" /\ last = "forwarded"
    /\ RecordsOf(clients, cid) = { }
    /\ \E s, t \in UsedSlots(clients) :
          /\ clients[s].addr = pkt_src
          /\ clients[t].addr # pkt_src
          /\ Dsts = << clients[t].addr >>

(***************************************************************************)
(* C2.  As claimed: with N records holding N pairwise distinct addresses   *)
(* and a valid frame from one of them, the relay has made exactly N-1      *)
(* sends once the frame is handled, none to the sender's address.  This    *)
(* fails when g_server_ip_str is not an IPv4 address (no send at all).     *)
(***************************************************************************)
DistinctAddrs(cl) ==
    \A s, t \in UsedSlots(cl) : s # t => cl[s].addr # cl[t].addr

FromRegistered(cl, a) == \E s \in UsedSlots(cl) : cl[s].addr = a

ForwardCountAlways ==
    (Handled /\ DistinctAddrs(clients) /\ FromRegistered(clients, pkt_src))
        => /\ Len(sent) = Cardinality(UsedSlots(clients)) - 1
           /\ \A k \in 1..Len(sent) : sent[k].dst # pkt_src

(***************************************************************************)
(* C2, amended.  With N records holding N pairwise distinct addresses and  *)
(* a valid frame from one of them: when g_server_ip_str is an IPv4 address *)
(* the fan-out loop sends at most once to each other record's address,     *)
(* never to the sender's, and has made exactly N-1 sends when it has       *)
(* visited every slot; otherwise the relay makes no send for the frame.    *)
(***************************************************************************)
ForwardCount ==
    (DistinctAddrs(clients) /\ FromRegistered(clients, pkt_src))
        => /\ InFanOut =>
                 /\ \A k \in 1..Len(sent) :
                       /\ sent[k].dst # pkt_src
                       /\ FromRegistered(clients, sent[k].dst)
                       /\ \A l \in 1..Len(sent) :
                             sent[l].dst = sent[k].dst => l = k
                 /\ Len(sent) <= Cardinality(UsedSlots(clients)) - 1
                 /\ i = MAX_CLIENTS
                        => Len(sent) = Cardinality(UsedSlots(clients)) - 1
           /\ (pc["main"] = "loop_end" /\ last = "no_server_ip")
                  => Len(sent) = 0

\* a full registry of distinct addresses, the sender among them, and the
\* frame forwarded to all the others
ForwardCountSeen ==
    /\ pc["main"] = "loop_end" /\ last = "forwarded"
    /\ Full(clients) /\ DistinctAddrs(clients)
    /\ FromRegistered(clients, pkt_src)
    /\ Len(sent) = MAX_CLIENTS - 1
    /\ MAX_CLIENTS > 1

(***************************************************************************)
(* C3.  In every reachable state the registry holds at most one used       *)
(* record per client_id.                                                   *)
(***************************************************************************)
NoDuplicateIds ==
    \A s, t \in UsedSlots(clients) :
        clients[s].client_id = clients[t].client_id => s = t

\* a full registry in which a registered client has just been upserted again
NoDuplicateIdsSeen ==
    /\ pc["main"] = "fwd_enter"
    /\ Full(clients)
    /\ RecordsOf(before, cid) # { }

Upserting(t) == pc[t] \in { "reg_scan", "reg_insert" }

Serializable ==
    /\ \A t \in Threads :
          Upserting(t)
              => /\ clients_lock = t
                 /\ serial = server_register_client(clients, reg[t].client_id,
                                                    reg[t].addr)
    /\ (\A t \in Threads : ~Upserting(t)) => clients = serial
    /\ \A s, t \in UsedSlots(clients) :
          clients[s].client_id = clients[t].client_id => s = t

\* both contexts have upserted the same unseen id from different addresses;
\* the server loop took the lock first, so the other context's address stays
SerializableSeen ==
    /\ pc["main"] = "fwd_enter" /\ pc["aux"] = "idle"
    /\ clients_lock = "none"
    /\ reg["aux"].client_id = cid
    /\ reg["aux"].addr # pkt_src
    /\ RecordsOf(before, cid) = { }
    /\ \E s \in RecordsOf(clients, cid) : clients[s].addr = reg["aux"].addr

(***************************************************************************)
(* C6.  As claimed: on a full registry an upsert of an unseen id leaves    *)
(* the registry unchanged, an upsert of a registered id still updates its  *)
(* address, and once the frame is handled it has been forwarded to the     *)
(* existing records (those whose address differs from the sender's).  The  *)
(* last part fails when g_server_ip_str is not an IPv4 address.            *)
(***************************************************************************)
UpsertWhenFull ==
    (pc["main"] = "fwd_enter" /\ Full(before))
        => IF RecordsOf(before, cid) = { }
           THEN clients = before
           ELSE \E s \in RecordsOf(before, cid) :
                   clients = [before EXCEPT ![s].addr = pkt_src]

FullRegistryAlways ==
    /\ UpsertWhenFull
    /\ (Handled /\ Full(clients))
           => \A s \in Slots :
                  clients[s].addr # pkt_src
                      => \E k \in 1..Len(sent) : sent[k].dst = clients[s].addr

(***************************************************************************)
(* C6, amended.  On a full registry an upsert of an unseen id leaves the   *)
(* registry unchanged, an upsert of a registered id still updates its      *)
(* address, and the process does not stop in server_register_client.  When *)
(* g_server_ip_str is an IPv4 address the frame is then forwarded as with  *)
(* free slots: the fan-out loop sends to the records visited so far whose  *)
(* address differs from the sender's, and a loop that returns has visited  *)
(* them all.  Otherwise nothing is forwarded, full registry or not.        *)
(***************************************************************************)
FullRegistry ==
    /\ UpsertWhenFull
    /\ (pc["main"] = "crashed") => smashed
    /\ (InFanOut /\ Full(clients))
           => /\ Dsts = Recipients(clients, i, pkt_src)
              /\ \A s \in 1..i :
                    clients[s].addr # pkt_src
                        => \E k \in 1..Len(sent) : sent[k].dst = clients[s].addr
    /\ (pc["main"] = "loop_end" /\ last = "forwarded" /\ Full(clients))
           => i = MAX_CLIENTS
    /\ (pc["main"] = "loop_end" /\ last = "no_server_ip") => sent = << >>

\* the registration of an unseen id was dropped and its frame forwarded to
\* every record of the full registry
FullRegistrySeen ==
    /\ pc["main"] = "loop_end" /\ last = "forwarded"
    /\ Full(clients)
    /\ RecordsOf(clients, cid) = { }
    /\ Len(sent) = MAX_CLIENTS

(***************************************************************************)
(* C7.  No step of the relay deletes a record: a client id that has a      *)
(* record before a step has one after it, and the number of used records   *)
(* does not decrease.                                                      *)
(***************************************************************************)
RecordsKept ==
    [][ /\ \A s \in UsedSlots(clients) :
              RecordsOf(clients', clients[s].client_id) # { }
        /\ Cardinality(UsedSlots(clients')) >= Cardinality(UsedSlots(clients))
      ]_vars

\* a record was added to a registry that already held another client, and
\* the other client's record is still there
RecordsKeptSeen ==
    /\ pc["main"] = "fwd_enter"
    /\ RecordsOf(before, cid) = { }
    /\ UsedSlots(before) # { }
    /\ Cardinality(UsedSlots(clients)) = Cardinality(UsedSlots(before)) + 1
    /\ \A s \in UsedSlots(before) : clients[s] = before[s]

(***************************************************************************)
(* C8.  The server loop accepts a datagram only when the bytes after its   *)
(* IP header number at least PRIV_HDR_SIZE and start with the bytes        *)
(* A1 B2 C3 D4.  The header is copied only after the length check passed,  *)
(* the client id is taken only after the magic check passed, and no byte   *)
(* beyond the r received ones is read, whatever the datagram (a 3-byte     *)
(* frame included).                                                        *)
(***************************************************************************)
\* offset of the frame in the datagram as its IP header declares it
HeaderLength == (rxbuf[1] % 16) * 4

DecodeRejects ==
    /\ hi <= (IF r > 0 THEN r ELSE 0)
    /\ Accepted
           => /\ payload = HeaderLength
              /\ r - HeaderLength >= PRIV_HDR_SIZE
              /\ SubSeq(rxbuf, HeaderLength + 1, HeaderLength + 4) = MAGIC
              /\ ph = SubSeq(rxbuf, HeaderLength + 1,
                             HeaderLength + PRIV_HDR_SIZE)
              /\ cid = SubSeq(rxbuf, HeaderLength + 5, HeaderLength + 8)
    /\ (pc["main"] = "loop_end" /\ last = "malformed")
           => /\ cid = U32Of(0)
              /\ reg["main"].client_id = U32Of(0)
              /\ ph # << >>
                     => /\ r - HeaderLength >= PRIV_HDR_SIZE
                        /\ SubSeq(rxbuf, HeaderLength + 1, HeaderLength + 4)
                               # MAGIC

\* a datagram with a 3-byte frame has been dropped before the header copy
DecodeRejectsSeen ==
    /\ pc["main"] = "loop_end" /\ last = "malformed"
    /\ r = IPHDR_LEN + 3
    /\ HeaderLength = IPHDR_LEN
    /\ ph = << >>
    /\ hi <= IPHDR_LEN

(***************************************************************************)
(* C9.  A datagram that fails a check (IP parse, frame shorter than the    *)
(* private header, wrong magic) and a failed recvfrom end the iteration    *)
(* with the registry unchanged and nothing sent to anyone; the next step   *)
(* of the relay is the next recvfrom.                                      *)
(***************************************************************************)
\* what makes the first n bytes of buf a malformed datagram, from the packet
\* format
Malformed(buf, n) ==
    \/ n < IPHDR_LEN
    \/ buf[1] \div 16 # 4
    \/ buf[10] # CUSTOM_PROTO
    \/ n < (buf[1] % 16) * 4
    \/ n - (buf[1] % 16) * 4 < PRIV_HDR_SIZE
    \/ SubSeq(buf, (buf[1] % 16) * 4 + 1, (buf[1] % 16) * 4 + 4) # MAGIC

DropsQuietly ==
    [][ /\ (pc["main"] = "decode" /\ Malformed(rxbuf, r))
               => /\ pc'["main"] = "loop_end"
                  /\ clients' = clients
                  /\ sent = << >> /\ sent' = << >>
        /\ (pc["main"] = "recv" /\ r' <= 0)
               => /\ pc'["main"] = "loop_end"
                  /\ clients' = clients
                  /\ sent = << >> /\ sent' = << >>
        /\ (pc["main"] = "loop_end" /\ last \in { "malformed", "recv_error" })
               => /\ pc'["main"] = "recv"
                  /\ clients' = clients
                  /\ sent = << >> /\ sent' = << >>
      ]_vars

\* a frame with an altered magic has been dropped while clients are
\* registered
DropsQuietlySeen ==
    /\ pc["main"] = "loop_end" /\ last = "malformed"
    /\ Len(ph) = PRIV_HDR_SIZE
    /\ UsedSlots(clients) # { }
    /\ sent = << >>

(***************************************************************************)
(* C10.  Every packet handed to sendto by the fan-out carries, after its   *)
(* 20-byte IP header, exactly the bytes of the received frame (private     *)
(* header and audio, same length).  This fails for a frame longer than     *)
(* MAX_PACKET_SIZE - 20: build_ip_packet writes past pktbuf, and what the  *)
(* relay then sends need not be the frame.                                 *)
(***************************************************************************)
ForwardsVerbatim ==
    (pc["main"] \in { "fwd_loop", "loop_end" } /\ sent # << >>)
        => /\ sent[Len(sent)].len = IPHDR_LEN + (r - HeaderLength)
           /\ Len(pktbuf) = sent[Len(sent)].len
           /\ SubSeq(pktbuf, IPHDR_LEN + 1, Len(pktbuf))
                  = SubSeq(rxbuf, HeaderLength + 1, r)

(***************************************************************************)
(* C11.  A failed send does not stop the fan-out of a frame: whatever      *)
(* sends have failed, the sends made so far are those to every used record *)
(* among the slots visited whose address differs from the sender's, a      *)
(* fan-out that returns has visited every slot, and the process stops in   *)
(* the fan-out only after a write past pktbuf, never because of a failed   *)
(* send.                                                                   *)
(***************************************************************************)
FailedSends == { k \in 1..Len(sent) : ~sent[k].ok }

FailedSendGoesOn ==
    InFanOut
        => /\ Len(sent) = Len(Recipients(clients, i, pkt_src))
           /\ \A k \in 1..Len(sent) :
                 sent[k].dst = Recipients(clients, i, pkt_src)[k]
           /\ (FailedSends # { } /\ pc["main"] = "loop_end")
                  => /\ i = MAX_CLIENTS
                     /\ \A s \in UsedSlots(clients) :
                           clients[s].addr # pkt_src
                               => \E k \in 1..Len(sent) :
                                      sent[k].dst = clients[s].addr
           /\ (pc["main"] = "crashed") => smashed

\* the first send of a fan-out failed and a later record was still sent the
\* frame
FailedSendGoesOnSeen ==
    /\ pc["main"] = "loop_end" /\ last = "forwarded"
    /\ ~smashed
    /\ Len(sent) >= 2
    /\ ~sent[1].ok
    /\ sent[2].dst # sent[1].dst

(***************************************************************************)
(* C12.  As claimed: the checksum build_ip_packet stores covers the whole  *)
(* 20-byte header, so the ones'-complement sum of the ten 16-bit words of  *)
(* the header of every packet the relay sends, stored checksum included,   *)
(* folds to 0xFFFF.  This fails: build_ip_packet passes ip->ihl, the       *)
(* header length in 32-bit words, as the number of 16-bit words, and the   *)
(* checksum covers the first ten bytes only (the addresses are left out).  *)
(***************************************************************************)
HeaderWords == IPHDR_LEN \div 2

ChecksumCoversHeader ==
    (pc["main"] \in { "fwd_loop", "loop_end" } /\ sent # << >>)
        => FoldCarry(SumWords(pktbuf, HeaderWords)) = 65535


(***************************************************************************)
(* Properties of ip_checksum and of the frame codec.                       *)
(***************************************************************************)
\* ones'-complement addition of two 16-bit values (end-around carry)
OnesAdd(a, b) == IF a + b > 65535 THEN a + b - 65535 ELSE a + b

\* the ones'-complement sum of the first n words of ws
RECURSIVE OnesSum(_, _)
OnesSum(ws, n) == IF n = 0 THEN 0 ELSE OnesAdd(OnesSum(ws, n - 1), ws[n])

\* the Internet checksum of the first n words of ws
RefChecksum(ws, n) == 65535 - OnesSum(ws, n)

\* C13: for every word count n and every sequence of 16-bit words,
\* ip_checksum(buf, n) is the reference ones'-complement Internet checksum
\* of the first n words of buf.
ChecksumIsReference ==
    (fn.name = "ip_checksum" /\ fn.done)
        => fn.result = RefChecksum(fn.words, fn.nwords)

\* ip_checksum has been applied to words whose sum has to be folded twice
ChecksumIsReferenceSeen ==
    /\ fn.name = "ip_checksum" /\ fn.done
    /\ FoldOnce(SumWords(fn.buf, fn.nwords)) >= 65536
    /\ fn.result = 65534

\* C14: for every client_id, sequence number, seconds and microseconds in the
\* 32-bit range and every payload, taking apart the bytes the peer's encoder
\* produced gives back the same four fields and the same payload bytes.
FrameRoundTrip ==
    (fn.name = "codec" /\ fn.done)
        => /\ fn.result.ok
           /\ fn.result.sender_id = fn.client_id
           /\ fn.result.seq = fn.seqno
           /\ fn.result.secs = fn.ts_sec
           /\ fn.result.usec = fn.ts_usec
           /\ fn.result.audio = fn.audio

\* a frame whose fields differ from their byte-swapped values, with audio
\* bytes, has been encoded and decoded
FrameRoundTripSeen ==
    /\ fn.name = "codec" /\ fn.done
    /\ fn.client_id = << 1, 2, 3, 4 >> /\ fn.seqno = << 255, 255, 255, 255 >>
    /\ fn.ts_sec = << 1, 2, 3, 4 >> /\ fn.ts_usec = << 0, 0, 0, 0 >>
    /\ fn.audio # << >>
    /\ fn.result.ok

(***************************************************************************)
(* Properties of the peer.                                                 *)
(***************************************************************************)
Hi16(x) == x[1] * 256 + x[2]

Lo16(x) == x[3] * 256 + x[4]

\* b = (a + 1) mod 2^32
IsNext(a, b) ==
    /\ Lo16(b) = (Lo16(a) + 1) % 65536
    /\ Hi16(b) = (Hi16(a) + ((Lo16(a) + 1) \div 65536)) % 65536

\* C15: the first frame a peer sends carries sequence number 0, and every
\* later frame carries the number of the frame before it plus one modulo
\* 2^32, so that 0 follows 2^32 - 1.
SeqCounts ==
    \A k \in 1..Len(txlog) :
        /\ txlog[k].first => txlog[k].seq = << 0, 0, 0, 0 >>
        /\ k > 1 => IsNext(txlog[k - 1].seq, txlog[k].seq)

\* frames 0, 1, 2 have been sent
SeqStartsSeen ==
    /\ Len(txlog) = 3
    /\ txlog[1].first
    /\ txlog[3].seq = << 0, 0, 0, 2 >>

\* the frame after the frame numbered 2^32 - 1 has been sent
SeqCountsSeen ==
    /\ Len(txlog) >= 2
    /\ \E k \in 2..Len(txlog) :
          /\ txlog[k - 1].seq = << 255, 255, 255, 255 >>
          /\ txlog[k].seq = << 0, 0, 0, 0 >>

(***************************************************************************)
(* Properties of the loops.                                                *)
(***************************************************************************)
\* the server loop has just had a failed recvfrom or dropped a datagram
RelayRecvFailed ==
    pc["main"] = "loop_end" /\ last \in { "recv_error", "malformed" }

\* the server loop has just had a failed send of a frame that fits pktbuf
RelaySendFailed ==
    /\ pc["main"] = "fwd_loop" /\ ~smashed
    /\ sent # << >> /\ ~sent[Len(sent)].ok

\* main's client loop has just had a failed recvfrom or dropped a datagram
PeerRecvFailed == ppc["recv"] \in { "recv_failed", "dropped" }

\* client_send_thread has just had a failed send
PeerSendFailed ==
    ppc["send"] = "sent" /\ txlog # << >> /\ ~txlog[Len(txlog)].ok

\* C16: after a failed receive, a failed send or a malformed frame, the
\* server loop and the peer's receive loop come back to their recvfrom and
\* the peer's send loop comes back to its sleep: no such failure halts a loop.
FailuresDoNotHalt ==
    /\ RelayRecvFailed ~> (pc["main"] = "recv")
    /\ RelaySendFailed ~> (pc["main"] = "recv")
    /\ PeerRecvFailed ~> (ppc["recv"] = "recv")
    /\ PeerSendFailed ~> (ppc["send"] = "sleep")

\* the peer's send loop is asleep again after a failed send, its receive
\* loop having come back from a failure of its own
FailuresDoNotHaltSeen ==
    /\ ppc["send"] = "sleep" /\ ppc["recv"] = "recv"
    /\ txlog # << >> /\ ~txlog[Len(txlog)].ok
    /\ touched["r"] # { }

\* the server loop is back at recvfrom after a failed send
RelayGoesOnSeen ==
    /\ pc["main"] = "loop_end" /\ last = "forwarded" /\ ~smashed
    /\ sent # << >> /\ ~sent[Len(sent)].ok

\* a loop has stopped: main has returned, or the process has died
RelayStopped == pc["main"] \in { "exited", "crashed" }

PeerStopped == ppc["recv"] = "exited"

\* C17: once a recvfrom of the server loop or of the peer's receive loop has
\* failed (as it does on a socket closed at shutdown), that loop eventually
\* stops instead of calling recvfrom again for ever.
ReceiveFailureStops ==
    /\ (pc["main"] = "loop_end" /\ last = "recv_error") ~> RelayStopped
    /\ (ppc["recv"] = "recv_failed") ~> PeerStopped

\* C18: the relay stops only at start-up, when a raw socket cannot be
\* created; once the server loop has been entered no datagram, receive
\* error, full registry or failed send makes it stop.
OnlyStartupIsFatal ==
    [][(RelayStopped' /\ ~RelayStopped) => pc["main"] = "start"]_vars

\* C19: the fan-out works on a copy of the registry taken at one instant, so
\* while its sends are in progress an upsert by another context is not kept
\* waiting: whenever that context asks for the registry during the fan-out,
\* the lock is free.
UpsertNotBlocked ==
    (pc["main"] = "fwd_loop" /\ pc["aux"] = "reg_lock")
        => clients_lock = "none"

\* the socket handles
Handles == { "raw_send_sock", "recv_fd" }

\* no object but a handle that one loop has written has been used by the other
WrittenByOneLoop ==
    \A o \in PeerObjects \ Handles :
        \A a \in touched[o], b \in touched[o] : a[2] = "w" => b[1] = a[1]

\* a step of one loop leaves the variables of the other as they are
StepsKeepApart ==
    /\ ppc'["send"] # ppc["send"] => UNCHANGED << peer_r, peer_rxbuf, rxd >>
    /\ ppc'["recv"] # ppc["recv"] => UNCHANGED << seq, txlog >>

\* C20: once both loops of the peer run, in every interleaving, nothing but
\* the socket handles is shared between them: what one loop writes (the
\* sequence counter, the packet buffers, the receive buffer, the state of
\* the noise generator) the other neither reads nor writes.
LoopsShareNothing ==
    /\ []WrittenByOneLoop
    /\ [][ppc["recv"] # "start" => StepsKeepApart]_vars

\* both loops have done a full iteration
LoopsShareNothingSeen ==
    /\ txlog # << >> /\ txlog[1].first
    /\ << "send", "w" >> \in touched["seq"]
    /\ << "recv", "w" >> \in touched["rx_fields"]
    /\ touched["raw_send_sock"] # { } /\ touched["recv_fd"] # { }

(***************************************************************************)
(* More properties of the relay.                                           *)
(***************************************************************************)
\* the used records that hold address a
RecordsAt(cl, a) == { s \in Slots : cl[s].used /\ cl[s].addr = a }

\* C21: when records of two or more distinct client_ids hold the same
\* address, a frame that arrives from that address is sent to none of them:
\* the exclusion covers every record with the sender's address.
SharedAddressExcluded ==
    (InFanOut /\ Cardinality(RecordsAt(clients, pkt_src)) >= 2)
        => \A k \in 1..Len(sent) : sent[k].dst # pkt_src

\* a frame from an address that two client_ids hold has been handled, its
\* fan-out complete, without a send
SharedAddressExcludedSeen ==
    /\ pc["main"] = "loop_end" /\ last = "forwarded" /\ i = MAX_CLIENTS
    /\ \E s, t \in RecordsAt(clients, pkt_src) :
          clients[s].client_id # clients[t].client_id
    /\ \A k \in 1..Len(sent) : sent[k].dst # pkt_src

\* the registration of the current frame's sender has returned and the frame
\* is being, or has been, forwarded
PastUpsert ==
    \/ pc["main"] \in { "fwd_enter", "fwd_lock", "fwd_loop" }
    \/ pc["main"] = "loop_end" /\ last \in { "forwarded", "no_server_ip" }

\* C22: the relay upserts the sender of a valid frame before it selects the
\* recipients: the registry of the fan-out holds the sender's client_id with
\* the frame's source address, unless the registry is full of other ids, and
\* no send of the fan-out goes to the sender's address.
UpsertBeforeFanOut ==
    PastUpsert
        => /\ \/ \E s \in RecordsOf(clients, cid) : clients[s].addr = pkt_src
              \/ Full(clients) /\ RecordsOf(clients, cid) = { }
           /\ \A k \in 1..Len(sent) : sent[k].dst # pkt_src

\* a frame has been forwarded to every other client, the sender's record
\* being the last used one of the registry
UpsertBeforeFanOutSeen ==
    /\ pc["main"] = "loop_end" /\ last = "forwarded"
    /\ \E s \in RecordsOf(clients, cid) :
          /\ clients[s].addr = pkt_src
          /\ \A t \in UsedSlots(clients) : t <= s
    /\ Len(sent) = MAX_CLIENTS - 1
    /\ sent # << >>

\* the upsert and the fan-out for the datagram in rxbuf are complete
FrameDone ==
    /\ clients_lock = "none"
    /\ \/ \E s \in RecordsOf(clients, cid) : clients[s].addr = pkt_src
       \/ Full(clients) /\ RecordsOf(clients, cid) = { }
    /\ IF g_server_ip_ok
       THEN /\ last = "forwarded"
            /\ i = MAX_CLIENTS
            /\ Dsts = Recipients(clients, MAX_CLIENTS, pkt_src)
       ELSE /\ last = "no_server_ip"
            /\ sent = << >>

\* C23: the relay handles one datagram at a time: rxbuf is written only by
\* the recvfrom at the top of the loop, and the loop comes back to recvfrom
\* after a valid frame only when the sender's upsert and every send of the
\* fan-out for that frame are done, so that the sends for successive frames
\* are made in the order of their arrival.
OneFrameAtATime ==
    [][/\ (rxbuf' # rxbuf \/ r' # r) => pc["main"] \in { "recv", "loop_end" }
       /\ (pc["main"] # "recv" /\ pc'["main"] = "recv" /\ r > 0
              /\ DecodeFrame(rxbuf, r).ok)
             => FrameDone]_vars

\* a frame has been registered and sent to every other client, and the
\* loop is about to call recvfrom again
OneFrameAtATimeSeen ==
    /\ pc["main"] = "loop_end" /\ FrameDone
    /\ Len(sent) >= 1
    /\ \E s \in UsedSlots(clients) : clients[s].addr = pkt_src

(***************************************************************************)
(* Properties of build_ip_packet and parse_ip_packet.                      *)
(***************************************************************************)
\* C24: every packet of build_ip_packet has version 4, header length 5,
\* TTL 64, protocol 255, fragment offset 0, a total length of 20 plus the
\* frame length, the given source and destination addresses and the frame
\* bytes as given from offset 20 on; the function returns the total length.
HeaderFields ==
    (fn.name = "build_ip_packet" /\ fn.done)
        => /\ fn.buf[1] = 4 * 16 + 5
           /\ fn.buf[3] * 256 + fn.buf[4] = 20 + fn.payload_len
           /\ fn.buf[7] = 0 /\ fn.buf[8] = 0
           /\ fn.buf[9] = 64
           /\ fn.buf[10] = 255
           /\ SubSeq(fn.buf, 13, 16) = fn.ip_src
           /\ SubSeq(fn.buf, 17, 20) = fn.ip_dst
           /\ SubSeq(fn.buf, 21, Len(fn.buf)) = fn.payload
           /\ Len(fn.buf) = 20 + fn.payload_len
           /\ fn.result = 20 + fn.payload_len

\* a packet with a frame that carries audio has been built
HeaderFieldsSeen ==
    /\ fn.name = "build_ip_packet" /\ fn.done
    /\ fn.payload_len > PRIV_HDR_SIZE
    /\ fn.ip_src # fn.ip_dst
    /\ fn.result = 20 + fn.payload_len

\* the declared header length of a datagram, in bytes
DeclaredIhl(buf) == (buf[1] % 16) * 4

\* C25: parse_ip_packet returns -1 and leaves its outputs alone when the
\* received length is below 20, the version is not 4, the protocol is not
\* 255 or the declared header length exceeds the received length; otherwise
\* it gives the source address of the header, the bytes from the declared
\* header length on, and their number, which is not negative.
ParseContract ==
    (fn.name = "parse_ip_packet" /\ fn.done)
        => IF \/ fn.buflen < 20
              \/ fn.buf[1] \div 16 # 4
              \/ fn.buf[10] # 255
              \/ DeclaredIhl(fn.buf) > fn.buflen
           THEN fn.result = -1 /\ fn.out = Unset
           ELSE /\ fn.out.src_addr = SubSeq(fn.buf, 13, 16)
                /\ fn.out.payload = DeclaredIhl(fn.buf)
                /\ fn.out.payload_len = fn.buflen - DeclaredIhl(fn.buf)
                /\ fn.out.payload_len >= 0
                /\ fn.result = fn.out.payload_len

\* a datagram whose declared header length exceeds its length has been
\* refused
ParseContractSeen ==
    /\ fn.name = "parse_ip_packet" /\ fn.done
    /\ fn.buflen >= 20 /\ fn.buf[1] \div 16 = 4 /\ fn.buf[10] = 255
    /\ DeclaredIhl(fn.buf) > fn.buflen
    /\ fn.result = -1

\* a datagram with an IP option has been parsed
ParseOptionSeen ==
    /\ fn.name = "parse_ip_packet" /\ fn.done
    /\ fn.result >= 0 /\ fn.out.payload = 24

(***************************************************************************)
(* Properties of the peer's receive loop.                                  *)
(***************************************************************************)
\* the datagram of n bytes in buf is an IPv4 packet of protocol 255 whose
\* payload has 20 bytes or more and starts with the magic A1 B2 C3 D4
WireValid(buf, n) ==
    /\ n >= 20
    /\ buf[1] \div 16 = 4
    /\ buf[10] = 255
    /\ n - DeclaredIhl(buf) >= 20
    /\ SubSeq(buf, DeclaredIhl(buf) + 1, DeclaredIhl(buf) + 4)
           = << 161, 178, 195, 212 >>

\* the sequence number on the wire, modulo 50 (65536 = 36 modulo 50)
WireSeqMod50(buf) ==
    LET o == DeclaredIhl(buf) + 8
    IN  (((buf[o + 1] * 256 + buf[o + 2]) % 50) * 36
         + buf[o + 3] * 256 + buf[o + 4]) % 50

\* main's client loop is past its checks for the datagram in peer_rxbuf
PeerChecked == ppc["recv"] \in { "dropped", "played", "report", "reported" }

\* C26: the peer's receive loop reports a delay for a datagram exactly when
\* the datagram is a valid frame whose sequence number is a multiple of 50;
\* for any other datagram, and after a failed recvfrom, it reports nothing;
\* no step of the receive loop sends a packet.
ReportsSampledFrames ==
    /\ [](/\ PeerChecked =>
                 (ppc["recv"] \in { "report", "reported" }
                    <=> /\ WireValid(peer_rxbuf, peer_r)
                        /\ WireSeqMod50(peer_rxbuf) = 0)
           /\ ("delay" \in DOMAIN rxd) <=> ppc["recv"] = "reported")
    /\ [][(ppc["recv"] # "start" /\ ppc'["recv"] # ppc["recv"])
             => txlog' = txlog]_vars

\* a valid frame with sequence number 0 has been reported
ReportsSampledFramesSeen ==
    /\ ppc["recv"] = "reported"
    /\ rxd.seq = << 0, 0, 0, 0 >>
    /\ WireValid(peer_rxbuf, peer_r)

\* a valid frame with another sequence number has been played unreported
UnsampledFrameSeen ==
    /\ ppc["recv"] = "played"
    /\ WireValid(peer_rxbuf, peer_r)
    /\ WireSeqMod50(peer_rxbuf) # 0

\* a + b = c as numbers, for 64-bit a, b, c given by their limbs
SumIs(a, b, c) ==
    LET t4 == a[4] + b[4]
        t3 == a[3] + b[3] + (t4 \div 65536)
        t2 == a[2] + b[2] + (t3 \div 65536)
        t1 == a[1] + b[1] + (t2 \div 65536)
    IN  /\ t1 < 65536
        /\ c = << t1, t2 % 65536, t3 % 65536, t4 % 65536 >>

\* C27: the delay reported for a sampled frame is the receiver's time in
\* milliseconds minus the frame's timestamp in milliseconds, a number that
\* is not negative, also when the timestamp is ahead of the receiver's clock.
DelayIsDifference ==
    ppc["recv"] = "reported" => SumIs(rxd.ts_ms, rxd.delay, rxd.now)

(***************************************************************************)
(* The peer with a scheduler that runs client_send_thread: whenever the    *)
(* thread has a next step (nanosleep returns after its period, the other   *)
(* steps are its own), that step is eventually taken.  Nothing is assumed  *)
(* about main's receive loop.                                              *)
(***************************************************************************)
\* the position client_send_thread reaches by its next step
SendThreadNext(at) ==
    IF at = "init" THEN "sleep"
    ELSE IF at = "sleep" THEN "build"
    ELSE IF at = "build" THEN "sent"
    ELSE AfterAttempt

\* a step of client_send_thread, as seen on its position: ClientSendInit,
\* ClientSleep, ClientSendFrame or ClientSendDone
SendThreadStep ==
    /\ ppc["send"] \in { "init", "sleep", "build", "sent" }
    /\ ppc["send"] = "sleep" => Len(txlog) < MaxFrames
    /\ ppc' = [ppc EXCEPT !["send"] = SendThreadNext(ppc["send"])]

SpecSend ==
    /\ InitPeer
    /\ [][NextPeer]_vars
    /\ WF_ppc(SendThreadStep)

\* C28: the peer's send loop never terminates; every iteration sleeps, then
\* builds one frame and makes exactly one transmission attempt, addressed to
\* the relay; under fairness the next frame is always sent (for every frame
\* the bound MaxFrames lets the model send).
SendLoopRuns ==
    /\ [][ppc["send"] # "off" => ppc'["send"] # "off"]_vars
    /\ [][ppc'["send"] # ppc["send"] =>
             \/ ppc["send"] = "off" /\ ppc'["send"] = "init"
             \/ ppc["send"] = "init" /\ ppc'["send"] = "sleep"
             \/ ppc["send"] = "sleep" /\ ppc'["send"] = "build"
             \/ ppc["send"] = "build" /\ ppc'["send"] = "sent"
             \/ ppc["send"] = "sent" /\ ppc'["send"] = "sleep"]_vars
    /\ [][IF ppc["send"] = "build" /\ ppc'["send"] = "sent"
          THEN /\ Len(txlog') = Len(txlog) + 1
               /\ SubSeq(txlog', 1, Len(txlog)) = txlog
               /\ txlog'[Len(txlog')].dst = ServerAddr
          ELSE txlog' = txlog]_vars
    /\ \A n \in 0..(MaxFrames - 1) :
          (ppc["send"] # "off" /\ Len(txlog) = n) ~> (Len(txlog) = n + 1)

\* the loop is back at its sleep after an attempt that failed, with an
\* earlier frame already sent
SendLoopRunsSeen ==
    /\ ppc["send"] = "sleep"
    /\ Len(txlog) >= 2
    /\ ~txlog[Len(txlog)].ok
    /\ txlog[Len(txlog)].dst = ServerAddr

\* C29: the relay never builds a forwarded packet larger than pktbuf: no
\* build_ip_packet of the fan-out has written past the array, and every
\* packet handed to sendto is IPHDR_LEN plus the frame's length and at most
\* MAX_PACKET_SIZE bytes long.
PacketFitsPktbuf ==
    /\ ~smashed
    /\ \A k \in 1..Len(sent) :
          /\ sent[k].len = IPHDR_LEN + payload_len
          /\ sent[k].len <= MAX_PACKET_SIZE

\* C30, as claimed: for one inbound frame the relay transmits at most one
\* copy to any one network address, whatever the registry holds (several
\* client ids at one address included).
OneCopyPerAddress ==
    \A k \in 1..Len(sent), l \in 1..Len(sent) :
        sent[k].dst = sent[l].dst => k = l

\* the copies of the current frame sent to address a so far
CopiesTo(a) == Cardinality({ k \in 1..Len(sent) : sent[k].dst = a })

\* C30, amended: for one inbound frame the relay transmits one copy per
\* registry record, not per address: an address other than the sender's is
\* sent as many copies as records hold it (two when two client ids are
\* registered with it), the sender's address none.
OneCopyPerRecord ==
    LET PerRecord(a) ==
            CopiesTo(a) = IF a = pkt_src THEN 0
                          ELSE Cardinality({ s \in 1..i : s \in RecordsAt(clients, a) })
    IN  /\ \A s \in Slots : PerRecord(clients[s].addr)
        /\ \A k \in 1..Len(sent) : PerRecord(sent[k].dst)

\* a frame went twice to the one address of two records
OneCopyPerRecordSeen ==
    /\ pc["main"] = "loop_end" /\ last = "forwarded"
    /\ \E a \in { clients[s].addr : s \in Slots } :
          /\ Cardinality(RecordsAt(clients, a)) = 2
          /\ CopiesTo(a) = 2

\* the addresses the registry cl holds
AddrsOf(cl) == { cl[s].addr : s \in UsedSlots(cl) }

\* the sender's id had a record with another address when its upsert began
\* and no record holds that address now
Moved ==
    /\ before # << >>
    /\ \E s \in RecordsOf(before, cid) :
          /\ before[s].addr # pkt_src
          /\ before[s].addr \notin AddrsOf(clients)

\* C31: the relay only ever sends to an address the registry holds at the
\* time of the send; once a client id has been upserted with a new address,
\* its frame is not forwarded to the previous address unless another record
\* holds that address.  The registry does not change during a fan-out.
SendsToRegistry ==
    [][Len(sent') > Len(sent) =>
         /\ sent'[Len(sent')].dst \in AddrsOf(clients)
         /\ clients' = clients
         /\ \A s \in RecordsOf(before, cid) :
               before[s].addr \notin AddrsOf(clients)
                   => sent'[Len(sent')].dst # before[s].addr]_vars

\* the sender had moved, its frame was forwarded, and nothing went to the
\* address it had left
SendsToRegistrySeen ==
    /\ pc["main"] = "loop_end" /\ last = "forwarded"
    /\ Moved
    /\ Len(sent) >= 1
    /\ \A k \in 1..Len(sent) :
          /\ sent[k].dst \in AddrsOf(clients)
          /\ \A s \in RecordsOf(before, cid) : sent[k].dst # before[s].addr

\* the positions of context t between pthread_mutex_lock and
\* pthread_mutex_unlock
Locked(t) ==
    IF t = "main" THEN { "reg_scan", "reg_insert", "fwd_loop" }
    ELSE { "reg_scan", "reg_insert" }

\* the positions where context t waits in pthread_mutex_lock
Waiting(t) == IF t = "main" THEN { "reg_lock", "fwd_lock" } ELSE { "reg_lock" }

\* C32: the registry mutex is released on every path: a context holds
\* clients_lock only between the lock and the unlock of
\* server_register_client or server_forward_payload, so after either has
\* returned the lock is not held by the caller; and a context that waits for
\* the lock waits for another context that is on its way to the unlock (the
\* process is gone once the overrun of pktbuf has killed it).
LockReleasedOnReturn ==
    \A t \in Threads :
        /\ (pc[t] \in Locked(t)) <=> (clients_lock = t /\ pc[t] # "crashed")
        /\ clients_lock = t => pc[t] \in Locked(t) \cup { "crashed" }
        /\ (pc[t] \in Waiting(t) /\ clients_lock # "none")
               => /\ clients_lock # t
                  /\ pc[clients_lock] \in Locked(clients_lock) \cup { "crashed" }

\* server_forward_payload has returned after a failed send for a sender that
\* the full registry did not take, and the lock is free
LockReleasedOnReturnSeen ==
    /\ pc["main"] = "loop_end" /\ last = "forwarded"
    /\ Full(clients) /\ RecordsOf(clients, cid) = { }
    /\ \E k \in 1..Len(sent) : ~sent[k].ok
    /\ clients_lock = "none"

\* C33: the frame bytes handed to the decoder never overlap the fixed
\* 20-byte IP header: for every packet parse_ip_packet accepts, the payload
\* offset IHL*4 is at least IPHDR_LEN.
PayloadClearOfHeader ==
    (fn.name = "parse_ip_packet" /\ fn.done /\ fn.result >= 0)
        => /\ fn.out.payload >= IPHDR_LEN
           /\ fn.out.payload_len <= fn.buflen - IPHDR_LEN

(***************************************************************************)
(* The relay with a peer on its own host.  A packet the relay sends to a   *)
(* record that holds the relay's own address is delivered on the same host *)
(* and so also to the relay's raw receive socket, which takes every        *)
(* datagram of protocol CUSTOM_PROTO.                                      *)
(***************************************************************************)
\* the frame of client 2
EchoFrame == EncodeFrame(U32Of(2), EnvSeq, EnvSec, EnvUsec, FitAudio)

\* the packet server_forward_payload builds from that frame for a record at
\* the relay's own address
EchoDatagram ==
    build_ip_packet(ServerAddr, ServerAddr, EchoFrame, Len(EchoFrame), 4660).buf

\* every client from its own address; client 1 runs on the relay's host
EchoPeers ==
    { PeerDatagram(U32Of(n), Addr(n), EnvSeq, FitAudio) : n \in 1..NumIds }

RecvPeer == RecvFrom(EchoPeers)

\* the relay has had cause to build EchoDatagram: it forwards, client 2 has
\* sent a frame from its own address (it holds a record there, or the full
\* registry has no room for it) and another client's record holds the
\* relay's address.  Which packets are still on their way is not tracked.
EchoSent ==
    /\ g_server_ip_ok
    /\ \E s \in UsedSlots(clients) :
          /\ clients[s].addr = ServerAddr
          /\ clients[s].client_id # U32Of(2)
    /\ IF RecordsOf(clients, U32Of(2)) = { }
       THEN Full(clients)
       ELSE \A s \in RecordsOf(clients, U32Of(2)) : clients[s].addr = Addr(2)

\* recvfrom returns a forwarded packet
RecvEcho ==
    /\ EchoSent
    /\ RecvFrom({ EchoDatagram })

NextEcho ==
    \/ Startup
    \/ RecvPeer
    \/ RecvEcho
    \/ RecvError
    \/ Decode
    \/ RegLock("main")
    \/ RegScan("main")
    \/ RegInsert("main")
    \/ FwdEnter
    \/ FwdLock
    \/ FwdSkip
    \/ FwdSend
    \/ FwdUnlock
    \/ LoopBack

SpecEcho == Init /\ [][NextEcho]_vars

\* C34: the relay never feeds on its own output: a forwarded packet that
\* comes back to the relay's receive socket, its source address the relay's
\* own, changes no record of the registry and is not forwarded again.
OwnOutputIgnored ==
    (rxbuf = EchoDatagram /\ PastUpsert)
        => /\ clients = before
           /\ sent = << >>

\* C35: the peer's sequence counter advances by exactly one in every
\* iteration of the send loop, whether the send succeeded or failed: after
\* an attempt the counter is the number of that frame plus one, so the
\* number of a frame whose send failed is missing from the numbers that
\* reach the relay, and no two frames carry the same number (within the
\* MaxFrames frames of a run, far from a full turn of the counter).
SeqSkipsFailedSends ==
    /\ txlog # << >> => IsNext(txlog[Len(txlog)].seq, seq)
    /\ \A k \in 1..Len(txlog), l \in 1..Len(txlog) :
          /\ l = k + 1 => IsNext(txlog[k].seq, txlog[l].seq)
          /\ txlog[k].seq = txlog[l].seq => k = l
          /\ (~txlog[k].ok /\ txlog[l].ok) => txlog[l].seq # txlog[k].seq

\* a send failed between two that succeeded: the relay is sent n and n + 2
SeqSkipsFailedSendsSeen ==
    /\ Len(txlog) = 3
    /\ txlog[1].ok /\ ~txlog[2].ok /\ txlog[3].ok
    /\ IsNext(txlog[1].seq, txlog[2].seq)
    /\ IsNext(txlog[2].seq, txlog[3].seq)

\* the sender of the current frame has no record and the registry is full:
\* its registration was dropped
Dropped == Full(clients) /\ RecordsOf(clients, cid) = { }

\* C36, as claimed: a valid frame of a sender whose registration was
\* dropped because the registry is full has been forwarded, once it is
\* handled, to every record whose address differs from the sender's.
DroppedSenderAlwaysForwarded ==
    (Handled /\ Dropped)
        => \A s \in Slots :
               clients[s].addr # pkt_src
                   => \E k \in 1..Len(sent) : sent[k].dst = clients[s].addr

\* C36, amended: when g_server_ip_str is an IPv4 address, the frame of a
\* sender whose registration was dropped is forwarded like any other: the
\* fan-out sends to the records visited so far whose address differs from
\* the sender's, and when it returns it has visited them all.  Otherwise
\* the frame is forwarded to no one.
DroppedSenderForwarded ==
    /\ (PastUpsert /\ Dropped /\ pc["main"] = "loop_end")
           => (last = "forwarded") = g_server_ip_ok
    /\ (InFanOut /\ Dropped)
           => /\ g_server_ip_ok
              /\ Dsts = Recipients(clients, i, pkt_src)
    /\ (pc["main"] = "loop_end" /\ last = "forwarded" /\ Dropped)
           => /\ i = MAX_CLIENTS
              /\ \A s \in Slots :
                    clients[s].addr # pkt_src
                        => \E k \in 1..Len(sent) : sent[k].dst = clients[s].addr
    /\ (pc["main"] = "loop_end" /\ last = "no_server_ip" /\ Dropped)
           => sent = << >>

\* the frame of a dropped sender went to the record at another address and
\* not to the record that holds the sender's address
DroppedSenderForwardedSeen ==
    /\ pc["main"] = "loop_end" /\ last = "forwarded"
    /\ Dropped
    /\ Len(sent) >= 1
    /\ \E s \in Slots : clients[s].addr = pkt_src
    /\ \A k \in 1..Len(sent) : sent[k].dst # pkt_src

\* C37: when g_server_ip_str is not an IPv4 address, every valid inbound
\* frame still upserts its sender but causes no forwarding send; the server
\* loop, once entered, does not stop; and the configuration does not change,
\* so forwarding resumes for no later frame.
NoServerIpNoSends ==
    /\ [](~g_server_ip_ok =>
             /\ sent = << >>
             /\ pc["main"] \notin { "fwd_lock", "fwd_loop", "crashed" }
             /\ (pc["main"] = "loop_end" /\ last \notin { "recv_error", "malformed" })
                    => /\ last = "no_server_ip"
                       /\ clients = server_register_client(before, cid, pkt_src))
    /\ [][g_server_ip_ok' = g_server_ip_ok]_vars
    /\ [][(~g_server_ip_ok /\ pc["main"] # "start")
              => pc'["main"] \notin { "exited", "crashed" }]_vars

\* a frame has been handled without a send although a record at another
\* address was there to take it, and its sender has been registered
NoServerIpNoSendsSeen ==
    /\ ~g_server_ip_ok
    /\ pc["main"] = "loop_end" /\ last = "no_server_ip"
    /\ RecordsOf(before, cid) = { }
    /\ \E s \in RecordsOf(clients, cid) : clients[s].addr = pkt_src
    /\ \E s \in UsedSlots(clients) : clients[s].addr # pkt_src
    /\ sent = << >>

\* C38: every receive path of the relay registers the sender under the
\* host-order value of the client_id field of the frame (the number whose
\* big-endian bytes the frame carries), so the server loop of main and
\* server_recv_thread give the same registry key for the same frame.
SameRegistryKey ==
    (fn.name = "register_key" /\ fn.done)
        => /\ fn.main_key = SubSeq(fn.buf, IPHDR_LEN + 5, IPHDR_LEN + 8)
           /\ fn.thread_key = fn.main_key
=============================================================================
